---- MODULE Spec2Model ----
(***************************************************************************)
(* Model of the Sophie agent simulation engine (src-tauri/src/state,       *)
(* src-tauri/src/behavior and the command handlers of src-tauri/src/lib.rs)*)
(*                                                                         *)
(* Numeric representation.  Every f32 drive and affinity in the source is  *)
(* a multiple of 0.1 (all constants and increments are), so a value v of   *)
(* the source is held here as the integer 10*v ("tenths"): energy 80.0 is  *)
(* 800, the increment 0.2 is 2, the threshold 80.0 is 800.  A random draw  *)
(* of rand_f32(), (mixed % 10000) / 10000.0, is held as the integer        *)
(* mixed % 10000, so r < 0.3 reads r < 3000.  Timestamps are whole seconds.*)
(***************************************************************************)
EXTENDS Integers, Sequences, FiniteSets, TLC

VARIABLES
    sophie,   \* AppState.sophie : the SophieState behind the mutex
    memory,   \* AppState.memory : the rows appended to the memories table
    now,      \* the wall clock read by unix_now(), in seconds
    op,       \* the operation that produced the current state
    burst,    \* record_interaction() calls made in a row, and where they began
    steps,    \* operations performed so far
    arg,      \* inputs of the pure function under check
    out,      \* its result
    pc,       \* where each thread of the process stands
    locks,    \* the holder of each of the two mutexes of AppState
    sched,    \* locals of the background loop
    tasks,    \* the spawned text-generation tasks
    events,   \* the events emitted to the front end so far
    store     \* the database file: whether it opens, and its sophie_state row

\* the variables only the threaded and the start-up specifications move
conc == <<pc, locks, sched, tasks, events, store>>

vars == <<sophie, memory, now, op, burst, steps, arg, out, pc, locks, sched, tasks, events, store>>

----------------------------------------------------------------------------
\* Bounds of the model

\* operations explored from each initial state
MaxSteps == 4

\* largest minutes_since_interaction handed to Emotion::transition
MaxMinutes == 242

----------------------------------------------------------------------------
\* f32::min / f32::max on the tenths representation

Min(a, b) == IF a < b THEN a ELSE b

Max(a, b) == IF a > b THEN a ELSE b

----------------------------------------------------------------------------
\* state/physiological.rs

PhysiologicalState_new == [energy |-> 800, hunger |-> 200, sleepiness |-> 100]

\* tick() whose sleep never takes sleepiness below 5.0
physiological_tick_dozing(p, is_sleeping) ==
    LET q == IF is_sleeping
             THEN [p EXCEPT !.energy     = Min(p.energy + 20, 1000),
                            !.sleepiness = Max(p.sleepiness - 30, 50)]
             ELSE [p EXCEPT !.energy     = Max(p.energy - 5, 0),
                            !.sleepiness = Min(p.sleepiness + 2, 1000)]
    IN  [q EXCEPT !.hunger = Min(q.hunger + 3, 1000)]

physiological_tick(p, is_sleeping) ==
    LET q == IF is_sleeping
             THEN [p EXCEPT !.energy     = Min(p.energy + 20, 1000),
                            !.sleepiness = Max(p.sleepiness - 30, 0)]
             ELSE [p EXCEPT !.energy     = Max(p.energy - 5, 0),
                            !.sleepiness = Min(p.sleepiness + 2, 1000)]
    IN  [q EXCEPT !.hunger = Min(q.hunger + 3, 1000)]

\* feed() with the lower clamp forgotten
feed_unclamped(p) == [p EXCEPT !.hunger = p.hunger - 300]

feed(p) == [p EXCEPT !.hunger = Max(p.hunger - 300, 0)]

----------------------------------------------------------------------------
\* state/relationship.rs

RelationshipState_new == [trust |-> 100, intimacy |-> 50, understanding |-> 0]

on_positive_interaction(r) ==
    [r EXCEPT !.trust    = Min(r.trust + 5, 1000),
              !.intimacy = Min(r.intimacy + 8, 1000)]

on_conversation(r) ==
    [r EXCEPT !.understanding = Min(r.understanding + 10, 1000),
              !.intimacy      = Min(r.intimacy + 3, 1000)]

\* on_neglect() that also erodes understanding
on_neglect_forgetful(r) ==
    [r EXCEPT !.trust         = Max(r.trust - 1, 0),
              !.intimacy      = Max(r.intimacy - 2, 0),
              !.understanding = Max(r.understanding - 1, 0)]

on_neglect(r) ==
    [r EXCEPT !.trust    = Max(r.trust - 1, 0),
              !.intimacy = Max(r.intimacy - 2, 0)]

----------------------------------------------------------------------------
\* state/emotion.rs

Emotion == {"Happy", "Calm", "Curious", "Playful", "Bored", "Irritated", "Down"}

\* transition() with the Bored arm's intimacy test inverted
transition_swapped(self, has_interaction, minutes_since_interaction, energy, intimacy) ==
    CASE self = "Calm" ->
            IF has_interaction /\ energy > 500 THEN "Happy"
            ELSE IF minutes_since_interaction > 120 THEN "Bored"
            ELSE "Calm"
      [] self = "Happy" ->
            IF minutes_since_interaction > 60 THEN "Calm" ELSE "Happy"
      [] self = "Bored" ->
            IF has_interaction THEN "Happy"
            ELSE IF minutes_since_interaction > 240
                 THEN (IF intimacy > 400 THEN "Down" ELSE "Irritated")
            ELSE "Bored"
      [] self = "Irritated" ->
            IF minutes_since_interaction > 30 /\ ~has_interaction
            THEN "Calm" ELSE "Irritated"
      [] self = "Down" ->
            IF has_interaction /\ intimacy > 300 THEN "Calm" ELSE "Down"
      [] self = "Curious" ->
            IF minutes_since_interaction > 10 THEN "Calm" ELSE "Curious"
      [] self = "Playful" ->
            IF energy < 400 THEN "Calm"
            ELSE IF minutes_since_interaction > 30 THEN "Bored"
            ELSE "Playful"

\* the table with Bored answering an interaction by Playful
transition_playful(self, has_interaction, minutes_since_interaction, energy, intimacy) ==
    CASE self = "Calm" ->
            IF has_interaction /\ energy > 500 THEN "Happy"
            ELSE IF minutes_since_interaction > 120 THEN "Bored"
            ELSE "Calm"
      [] self = "Happy" ->
            IF minutes_since_interaction > 60 THEN "Calm" ELSE "Happy"
      [] self = "Bored" ->
            IF has_interaction THEN "Playful"
            ELSE IF minutes_since_interaction > 240
                 THEN (IF intimacy > 400 THEN "Irritated" ELSE "Down")
            ELSE "Bored"
      [] self = "Irritated" ->
            IF minutes_since_interaction > 30 /\ ~has_interaction
            THEN "Calm" ELSE "Irritated"
      [] self = "Down" ->
            IF has_interaction /\ intimacy > 300 THEN "Calm" ELSE "Down"
      [] self = "Curious" ->
            IF minutes_since_interaction > 10 THEN "Calm" ELSE "Curious"
      [] self = "Playful" ->
            IF energy < 400 THEN "Calm"
            ELSE IF minutes_since_interaction > 30 THEN "Bored"
            ELSE "Playful"

transition(self, has_interaction, minutes_since_interaction, energy, intimacy) ==
    CASE self = "Calm" ->
            IF has_interaction /\ energy > 500 THEN "Happy"
            ELSE IF minutes_since_interaction > 120 THEN "Bored"
            ELSE "Calm"
      [] self = "Happy" ->
            IF minutes_since_interaction > 60 THEN "Calm" ELSE "Happy"
      [] self = "Bored" ->
            IF has_interaction THEN "Happy"
            ELSE IF minutes_since_interaction > 240
                 THEN (IF intimacy > 400 THEN "Irritated" ELSE "Down")
            ELSE "Bored"
      [] self = "Irritated" ->
            IF minutes_since_interaction > 30 /\ ~has_interaction
            THEN "Calm" ELSE "Irritated"
      [] self = "Down" ->
            IF has_interaction /\ intimacy > 300 THEN "Calm" ELSE "Down"
      [] self = "Curious" ->
            IF minutes_since_interaction > 10 THEN "Calm" ELSE "Curious"
      [] self = "Playful" ->
            IF energy < 400 THEN "Calm"
            ELSE IF minutes_since_interaction > 30 THEN "Bored"
            ELSE "Playful"

----------------------------------------------------------------------------
\* state/mod.rs

SophieState_new(t) ==
    [physiological              |-> PhysiologicalState_new,
     emotion                    |-> "Calm",
     relationship               |-> RelationshipState_new,
     is_sleeping                |-> FALSE,
     last_interaction_ts        |-> t,
     recent_interaction_count   |-> 0,
     interaction_count_reset_ts |-> t]

\* ((now - self.last_interaction_ts) / 60) as u32
minutes_since_interaction(s, t) == (t - s.last_interaction_ts) \div 60

\* lines 43-47 of tick() resetting already at 600 seconds
reset_counter_early(s, t) ==
    IF t - s.interaction_count_reset_ts >= 600
    THEN [s EXCEPT !.recent_interaction_count = 0,
                   !.interaction_count_reset_ts = t]
    ELSE s

\* lines 43-47 of tick(): the lazy reset of the short-window counter
reset_counter(s, t) ==
    IF t - s.interaction_count_reset_ts > 600
    THEN [s EXCEPT !.recent_interaction_count = 0,
                   !.interaction_count_reset_ts = t]
    ELSE s

\* lines 52-58 of tick() with the sleep threshold two points too low
sleep_wake_drowsy(s) ==
    LET a == IF ~s.is_sleeping /\ s.physiological.sleepiness > 780
             THEN [s EXCEPT !.is_sleeping = TRUE] ELSE s
    IN  IF a.is_sleeping /\ a.physiological.sleepiness < 50
        THEN [a EXCEPT !.is_sleeping = FALSE] ELSE a

\* lines 52-58 of tick() with a wake test that undoes a fresh sleep
sleep_wake_restless(s) ==
    LET a == IF ~s.is_sleeping /\ s.physiological.sleepiness > 800
             THEN [s EXCEPT !.is_sleeping = TRUE] ELSE s
    IN  IF a.is_sleeping /\ a.physiological.sleepiness < 850
        THEN [a EXCEPT !.is_sleeping = FALSE] ELSE a

\* lines 52-58 of tick() with a wake threshold that ignores the update
sleep_wake_late(s) ==
    LET a == IF ~s.is_sleeping /\ s.physiological.sleepiness > 800
             THEN [s EXCEPT !.is_sleeping = TRUE] ELSE s
    IN  IF a.is_sleeping /\ a.physiological.sleepiness < 20
        THEN [a EXCEPT !.is_sleeping = FALSE] ELSE a

\* lines 52-58 of tick(): fall asleep, then wake
sleep_wake(s) ==
    LET a == IF ~s.is_sleeping /\ s.physiological.sleepiness > 800
             THEN [s EXCEPT !.is_sleeping = TRUE] ELSE s
    IN  IF a.is_sleeping /\ a.physiological.sleepiness < 50
        THEN [a EXCEPT !.is_sleeping = FALSE] ELSE a

\* lines 69-72 of tick() with the neglect threshold off by one
neglect_decay_early(s, m) ==
    IF m >= 180
    THEN [s EXCEPT !.relationship = on_neglect(s.relationship)]
    ELSE s

\* lines 69-72 of tick(): relationship decay under long neglect
neglect_decay(s, m) ==
    IF m > 180
    THEN [s EXCEPT !.relationship = on_neglect(s.relationship)]
    ELSE s

\* tick() with the emotion transition moved behind the neglect decay
tick_emotion_last(s, t) ==
    LET m  == minutes_since_interaction(s, t)
        s1 == reset_counter(s, t)
        s2 == [s1 EXCEPT !.physiological =
                            physiological_tick(s1.physiological, s1.is_sleeping)]
        s3 == sleep_wake(s2)
        s4 == neglect_decay(s3, m)
    IN  [s4 EXCEPT !.emotion =
                      transition(s4.emotion, m < 2, m,
                                 s4.physiological.energy,
                                 s4.relationship.intimacy)]

\* tick() with the sleep/wake decision moved ahead of the physiological update
tick_sleep_first(s, t) ==
    LET m  == minutes_since_interaction(s, t)
        s1 == reset_counter(s, t)
        s2 == sleep_wake(s1)
        s3 == [s2 EXCEPT !.physiological =
                            physiological_tick(s2.physiological, s2.is_sleeping)]
        s4 == [s3 EXCEPT !.emotion =
                            transition(s3.emotion, m < 2, m,
                                       s3.physiological.energy,
                                       s3.relationship.intimacy)]
    IN  neglect_decay(s4, m)

tick(s, t) ==
    LET m  == minutes_since_interaction(s, t)
        s1 == reset_counter(s, t)
        s2 == [s1 EXCEPT !.physiological =
                            physiological_tick(s1.physiological, s1.is_sleeping)]
        s3 == sleep_wake(s2)
        has_interaction == m < 2
        s4 == [s3 EXCEPT !.emotion =
                            transition(s3.emotion, has_interaction, m,
                                       s3.physiological.energy,
                                       s3.relationship.intimacy)]
    IN  neglect_decay(s4, m)

\* record_interaction() that wakes the agent on the first disturbance
record_interaction_light_sleeper(s, t) ==
    LET a == [s EXCEPT !.last_interaction_ts = t,
                       !.recent_interaction_count = s.recent_interaction_count + 1]
        b == IF a.is_sleeping /\ a.recent_interaction_count > 3
             THEN [a EXCEPT !.emotion = "Irritated"] ELSE a
    IN  IF b.is_sleeping /\ b.recent_interaction_count >= 1
        THEN [b EXCEPT !.is_sleeping = FALSE] ELSE b

\* record_interaction() that turns Irritated whether or not the agent sleeps
record_interaction_irritable(s, t) ==
    LET a == [s EXCEPT !.last_interaction_ts = t,
                       !.recent_interaction_count = s.recent_interaction_count + 1]
        b == IF a.recent_interaction_count > 3
             THEN [a EXCEPT !.emotion = "Irritated"] ELSE a
    IN  IF b.is_sleeping /\ b.recent_interaction_count > 1
        THEN [b EXCEPT !.is_sleeping = FALSE] ELSE b

\* record_interaction() that turns Irritated on any disturbance of sleep
record_interaction_grumpy(s, t) ==
    LET a == [s EXCEPT !.last_interaction_ts = t,
                       !.recent_interaction_count = s.recent_interaction_count + 1]
        b == IF a.is_sleeping
             THEN [a EXCEPT !.emotion = "Irritated"] ELSE a
    IN  IF b.is_sleeping /\ b.recent_interaction_count > 1
        THEN [b EXCEPT !.is_sleeping = FALSE] ELSE b

\* record_interaction() that runs the counter window itself
record_interaction_resetting(s, t) ==
    LET r == reset_counter(s, t)
        a == [r EXCEPT !.last_interaction_ts = t,
                       !.recent_interaction_count = r.recent_interaction_count + 1]
        b == IF a.is_sleeping /\ a.recent_interaction_count > 3
             THEN [a EXCEPT !.emotion = "Irritated"] ELSE a
    IN  IF b.is_sleeping /\ b.recent_interaction_count > 1
        THEN [b EXCEPT !.is_sleeping = FALSE] ELSE b

\* record_interaction() that wakes the agent only on the third disturbance
record_interaction_heavy_sleeper(s, t) ==
    LET a == [s EXCEPT !.last_interaction_ts = t,
                       !.recent_interaction_count = s.recent_interaction_count + 1]
        b == IF a.is_sleeping /\ a.recent_interaction_count > 3
             THEN [a EXCEPT !.emotion = "Irritated"] ELSE a
    IN  IF b.is_sleeping /\ b.recent_interaction_count > 2
        THEN [b EXCEPT !.is_sleeping = FALSE] ELSE b

record_interaction(s, t) ==
    LET a == [s EXCEPT !.last_interaction_ts = t,
                       !.recent_interaction_count = s.recent_interaction_count + 1]
        b == IF a.is_sleeping /\ a.recent_interaction_count > 3
             THEN [a EXCEPT !.emotion = "Irritated"] ELSE a
    IN  IF b.is_sleeping /\ b.recent_interaction_count > 1
        THEN [b EXCEPT !.is_sleeping = FALSE] ELSE b

----------------------------------------------------------------------------
\* behavior/mod.rs

Behavior == {"Idle", "Sleep", "Walk", "Alert", "Sit", "Run"}

random_daily_behavior(r) ==
    IF r < 3500 THEN "Idle"
    ELSE IF r < 5500 THEN "Sit"
    ELSE IF r < 7000 THEN "Walk"
    ELSE IF r < 8500 THEN "Alert"
    ELSE "Idle"

\* the emotion-driven arm of decide_behavior(); draws[i] is the value of the
\* i-th rand_f32() call the arm makes
\* the emotion arms with a draw added to the Curious arm
emotion_behavior_fickle(state, hour, draws) ==
    CASE state.emotion = "Bored" ->
            IF draws[1] < 3000 THEN "Walk"
            ELSE IF draws[1] < 5000 THEN "Run"
            ELSE "Alert"
      [] state.emotion = "Happy" ->
            IF state.relationship.intimacy > 500 /\ draws[1] < 3000 THEN "Walk"
            ELSE IF draws[1] < 5000 THEN "Idle"
            ELSE "Sit"
      [] state.emotion = "Irritated" -> "Sit"
      [] state.emotion = "Down" -> "Sleep"
      [] state.emotion = "Curious" ->
            IF draws[1] < 5000 THEN "Alert" ELSE "Walk"
      [] state.emotion = "Playful" ->
            IF draws[1] < 5000 THEN "Run" ELSE "Walk"
      [] state.emotion = "Calm" ->
            IF (hour \in 5..7 \/ hour \in 17..19) /\ state.physiological.energy > 600
            THEN IF draws[1] < 4000 THEN "Walk"
                 ELSE random_daily_behavior(draws[2])
            ELSE random_daily_behavior(draws[1])

\* the emotion arms with Idle of the Happy arm kept to the draws from 0.3 to 0.5
emotion_behavior_idle_band(state, hour, draws) ==
    CASE state.emotion = "Bored" ->
            IF draws[1] < 3000 THEN "Walk"
            ELSE IF draws[1] < 5000 THEN "Run"
            ELSE "Alert"
      [] state.emotion = "Happy" ->
            IF state.relationship.intimacy > 500 /\ draws[1] < 3000 THEN "Walk"
            ELSE IF draws[1] >= 3000 /\ draws[1] < 5000 THEN "Idle"
            ELSE "Sit"
      [] state.emotion = "Irritated" -> "Sit"
      [] state.emotion = "Down" -> "Sleep"
      [] state.emotion = "Curious" -> "Alert"
      [] state.emotion = "Playful" ->
            IF draws[1] < 5000 THEN "Run" ELSE "Walk"
      [] state.emotion = "Calm" ->
            IF (hour \in 5..7 \/ hour \in 17..19) /\ state.physiological.energy > 600
            THEN IF draws[1] < 4000 THEN "Walk"
                 ELSE random_daily_behavior(draws[2])
            ELSE random_daily_behavior(draws[1])

\* the emotion arms with hour 8 counted into the dawn window
emotion_behavior_late_dawn(state, hour, draws) ==
    CASE state.emotion = "Bored" ->
            IF draws[1] < 3000 THEN "Walk"
            ELSE IF draws[1] < 5000 THEN "Run"
            ELSE "Alert"
      [] state.emotion = "Happy" ->
            IF state.relationship.intimacy > 500 /\ draws[1] < 3000 THEN "Walk"
            ELSE IF draws[1] < 5000 THEN "Idle"
            ELSE "Sit"
      [] state.emotion = "Irritated" -> "Sit"
      [] state.emotion = "Down" -> "Sleep"
      [] state.emotion = "Curious" -> "Alert"
      [] state.emotion = "Playful" ->
            IF draws[1] < 5000 THEN "Run" ELSE "Walk"
      [] state.emotion = "Calm" ->
            IF (hour \in 5..8 \/ hour \in 17..19) /\ state.physiological.energy > 600
            THEN IF draws[1] < 4000 THEN "Walk"
                 ELSE random_daily_behavior(draws[2])
            ELSE random_daily_behavior(draws[1])

emotion_behavior(state, hour, draws) ==
    CASE state.emotion = "Bored" ->
            IF draws[1] < 3000 THEN "Walk"
            ELSE IF draws[1] < 5000 THEN "Run"
            ELSE "Alert"
      [] state.emotion = "Happy" ->
            IF state.relationship.intimacy > 500 /\ draws[1] < 3000 THEN "Walk"
            ELSE IF draws[1] < 5000 THEN "Idle"
            ELSE "Sit"
      [] state.emotion = "Irritated" -> "Sit"
      [] state.emotion = "Down" -> "Sleep"
      [] state.emotion = "Curious" -> "Alert"
      [] state.emotion = "Playful" ->
            IF draws[1] < 5000 THEN "Run" ELSE "Walk"
      [] state.emotion = "Calm" ->
            IF (hour \in 5..7 \/ hour \in 17..19) /\ state.physiological.energy > 600
            THEN IF draws[1] < 4000 THEN "Walk"
                 ELSE random_daily_behavior(draws[2])
            ELSE random_daily_behavior(draws[1])

\* decide_behavior() with the hunger test moved ahead of the energy test
decide_behavior_hunger_first(state, hour, draws) ==
    IF state.is_sleeping THEN "Sleep"
    ELSE IF state.physiological.sleepiness > 700 THEN "Sleep"
    ELSE IF state.physiological.hunger > 850 THEN "Walk"
    ELSE IF state.physiological.energy < 200 THEN "Sit"
    ELSE emotion_behavior(state, hour, draws)

decide_behavior(state, hour, draws) ==
    IF state.is_sleeping THEN "Sleep"
    ELSE IF state.physiological.sleepiness > 700 THEN "Sleep"
    ELSE IF state.physiological.energy < 200 THEN "Sit"
    ELSE IF state.physiological.hunger > 850 THEN "Walk"
    ELSE emotion_behavior(state, hour, draws)

----------------------------------------------------------------------------
\* lib.rs: the command handlers, each run under the sophie mutex

\* a row of the memories table: kind and emotional_weight (in tenths)
Row(kind, weight) == [kind |-> kind, emotional_weight |-> weight]

click_sophie(s, t) ==
    LET a == record_interaction(s, t)
    IN  [a EXCEPT !.relationship = on_positive_interaction(a.relationship)]

feed_sophie(s, t) ==
    LET a == record_interaction(s, t)
        b == [a EXCEPT !.physiological = feed(a.physiological)]
    IN  [b EXCEPT !.relationship = on_positive_interaction(b.relationship)]

speak_to_sophie(s, t) ==
    LET a == record_interaction(s, t)
    IN  [a EXCEPT !.relationship = on_conversation(a.relationship)]

----------------------------------------------------------------------------
\* The agent at start-up (lib.rs run(): a snapshot restored from the store,
\* or SophieState::new())

\* A persisted SophieState, read back at time t: ago and reset_ago are the
\* seconds since the last interaction and since the last counter reset.
Snapshot(energy, hunger, sleepiness, emotion, trust, intimacy, understanding, is_sleeping, count, ago, reset_ago, t) ==
    [physiological              |-> [energy |-> energy, hunger |-> hunger,
                                     sleepiness |-> sleepiness],
     emotion                    |-> emotion,
     relationship               |-> [trust |-> trust, intimacy |-> intimacy,
                                     understanding |-> understanding],
     is_sleeping                |-> is_sleeping,
     last_interaction_ts        |-> t - ago,
     recent_interaction_count   |-> count,
     interaction_count_reset_ts |-> t - reset_ago]

\* Snapshots the background loop persists (lib.rs 319-326, always right after
\* a tick), read back at time t.  Each is the state the code reaches from
\* SophieState::new() by the run described, ticking every 30 seconds.
Restored(t) ==
    { \* left alone for 345 ticks: awake at sleepiness 79.0
      Snapshot(0, 1000, 790, "Bored", 100, 50, 0, FALSE, 0, 10350, 270, t),
      \* then 4 ticks, three clicks and a tick: awake at 80.0, counter 3
      Snapshot(0, 1000, 800, "Happy", 115, 74, 0, FALSE, 3, 30, 420, t),
      \* then asleep at 80.2, clicked awake after every tick until it falls
      \* asleep at 81.0
      Snapshot(0, 1000, 810, "Irritated", 135, 106, 0, TRUE, 7, 30, 570, t),
      \* then 25 ticks of sleep: asleep at 6.0
      Snapshot(500, 1000, 60, "Irritated", 135, 106, 0, TRUE, 0, 780, 60, t),
      \* clicked awake until it falls asleep at 83.0, then 25 ticks: asleep at 8.0
      Snapshot(500, 1000, 80, "Irritated", 190, 194, 0, TRUE, 0, 780, 360, t),
      \* never touched: asleep on its own at 80.2, 10 ticks into its sleep
      Snapshot(200, 1000, 502, "Bored", 100, 50, 0, TRUE, 0, 10830, 120, t),
      \* 100 clicks, 225 neglect decays, 70 clicks, 250 neglect decays, 5
      \* clicks and a tick: trust 50.0, intimacy 50.0; the program is started
      \* again 200 minutes, or 180.5 minutes, after the last click
      Snapshot(275, 1000, 384, "Irritated", 500, 500, 0, FALSE, 5, 12000, 12000, t),
      Snapshot(275, 1000, 384, "Irritated", 500, 500, 0, FALSE, 5, 10830, 10830, t),
      \* never touched, 100 neglect decays: trust and intimacy at 0
      Snapshot(100, 1000, 190, "Bored", 0, 0, 0, FALSE, 0, 13830, 600, t),
      \* 200 clicks, 100 conversations and a tick: every affinity at 100
      Snapshot(795, 203, 102, "Happy", 1000, 1000, 1000, FALSE, 300, 30, 30, t),
      \* 73 clicks and 2 conversations, then left alone for 480 ticks: Bored
      \* at intimacy 40.2; started again 241 minutes after the last interaction
      Snapshot(5, 1000, 228, "Bored", 346, 402, 20, FALSE, 0, 14460, 600, t),
      \* never touched for 795 ticks: Down, awake after a sleep at energy
      \* 51.0; then 38 clicks and a tick: Calm at energy 50.5
      Snapshot(505, 1000, 28, "Calm", 190, 304, 0, FALSE, 38, 60, 600, t) }

\* time that passes between two operations, in seconds
Delays == {30, 600}

NoBurst == [n |-> 0, from_asleep0 |-> FALSE, count0 |-> 0]

\* one thread at a time: no thread table, both mutexes free, nothing spawned,
\* nothing emitted, the store not looked at
SingleThreaded ==
    /\ pc = "none"
    /\ locks = "none"
    /\ sched = "none"
    /\ tasks = "none"
    /\ events = "none"
    /\ store = "none"

Init ==
    /\ SingleThreaded
    /\ now = 100000
    /\ sophie \in {SophieState_new(now)} \cup Restored(now)
    /\ memory = << >>
    /\ op = "init"
    /\ burst = NoBurst
    /\ steps = 0
    /\ arg = "none"
    /\ out = "none"

\* The clock moves on while no thread holds the mutex.
Advance ==
    /\ steps < MaxSteps
    /\ \E d \in Delays : now' = now + d
    /\ steps' = steps + 1
    /\ UNCHANGED <<sophie, memory, op, burst, arg, out>>
    /\ UNCHANGED conc

\* bookkeeping shared by the operations
Done(name) ==
    /\ op' = name
    /\ steps' = steps + 1
    /\ UNCHANGED <<now, arg, out>>
    /\ UNCHANGED conc

\* an operation that calls record_interaction() extends the current run of
\* such calls, or starts one
Extended ==
    IF burst.n > 0
    THEN [burst EXCEPT !.n = burst.n + 1]
    ELSE [n |-> 1,
          from_asleep0 |-> sophie.is_sleeping /\ sophie.recent_interaction_count = 0,
          count0 |-> sophie.recent_interaction_count]

\* lib.rs 315-317: the background loop's sophie.tick()
Tick ==
    /\ steps < MaxSteps
    /\ sophie' = tick(sophie, now)
    /\ burst' = NoBurst
    /\ UNCHANGED memory
    /\ Done("tick")

\* the public methods of SophieState and of its two sub-models
RecordInteraction ==
    /\ steps < MaxSteps
    /\ sophie' = record_interaction(sophie, now)
    /\ burst' = Extended
    /\ UNCHANGED memory
    /\ Done("record_interaction")

Feed ==
    /\ steps < MaxSteps
    /\ sophie' = [sophie EXCEPT !.physiological = feed(sophie.physiological)]
    /\ burst' = NoBurst
    /\ UNCHANGED memory
    /\ Done("feed")

OnPositiveInteraction ==
    /\ steps < MaxSteps
    /\ sophie' = [sophie EXCEPT !.relationship =
                                   on_positive_interaction(sophie.relationship)]
    /\ burst' = NoBurst
    /\ UNCHANGED memory
    /\ Done("on_positive_interaction")

OnConversation ==
    /\ steps < MaxSteps
    /\ sophie' = [sophie EXCEPT !.relationship =
                                   on_conversation(sophie.relationship)]
    /\ burst' = NoBurst
    /\ UNCHANGED memory
    /\ Done("on_conversation")

OnNeglect ==
    /\ steps < MaxSteps
    /\ sophie' = [sophie EXCEPT !.relationship = on_neglect(sophie.relationship)]
    /\ burst' = NoBurst
    /\ UNCHANGED memory
    /\ Done("on_neglect")

\* lib.rs 92-193: the command handlers
ClickSophie ==
    /\ steps < MaxSteps
    /\ sophie' = click_sophie(sophie, now)
    /\ memory' = Append(memory, Row("interaction", 3))
    /\ burst' = Extended
    /\ Done("click_sophie")

FeedSophie ==
    /\ steps < MaxSteps
    /\ sophie' = feed_sophie(sophie, now)
    /\ memory' = Append(memory, Row("interaction", 6))
    /\ burst' = Extended
    /\ Done("feed_sophie")

SpeakToSophie ==
    /\ steps < MaxSteps
    /\ sophie' = speak_to_sophie(sophie, now)
    /\ memory' = Append(memory, Row("user_speech", 7))
    /\ burst' = Extended
    /\ Done("speak_to_sophie")

Next ==
    \/ Advance
    \/ Tick
    \/ RecordInteraction
    \/ Feed
    \/ OnPositiveInteraction
    \/ OnConversation
    \/ OnNeglect
    \/ ClickSophie
    \/ FeedSophie
    \/ SpeakToSophie

Spec == Init /\ [][Next]_vars

----------------------------------------------------------------------------
\* Emotion::transition as a pure function: every current emotion against
\* inputs on both sides of every threshold it reads

EnergySamples == {0, 399, 400, 401, 500, 501, 1000}

IntimacySamples == {0, 300, 301, 400, 401, 1000}

TransitionInputs ==
    [self : Emotion, has_interaction : BOOLEAN,
     minutes_since_interaction : 0..MaxMinutes,
     energy : EnergySamples, intimacy : IntimacySamples]

InitTransition ==
    /\ SingleThreaded
    /\ now = 100000
    /\ sophie = SophieState_new(now)
    /\ memory = << >>
    /\ op = "init"
    /\ burst = NoBurst
    /\ steps = 0
    /\ arg \in TransitionInputs
    /\ out = "none"

ApplyTransition ==
    /\ op = "init"
    /\ out' = transition(arg.self, arg.has_interaction,
                         arg.minutes_since_interaction, arg.energy, arg.intimacy)
    /\ op' = "transition"
    /\ UNCHANGED <<sophie, memory, now, burst, steps, arg>>
    /\ UNCHANGED conc

SpecTransition == InitTransition /\ [][ApplyTransition]_vars

----------------------------------------------------------------------------
\* decide_behavior as a pure function of the snapshot, the hour and the
\* values its rand_f32() calls return

\* rand_f32() yields (mixed % 10000) / 10000.0: samples next to each threshold
DrawSamples == {0, 2999, 3000, 3999, 4000, 4999, 5000, 9999}

DailyDrawSamples == {3499, 3500, 5499, 5500, 6999, 7000, 8499, 8500}

HourSamples == {0, 4, 5, 7, 8, 16, 17, 19, 20, 23}

BehaviorStates ==
    { Snapshot(e, h, sl, em, 100, i, 0, z, 0, 0, 0, 100000) :
        e \in {199, 200, 600, 601}, h \in {850, 851}, sl \in {700, 701},
        em \in Emotion, i \in {500, 501}, z \in BOOLEAN }

InitBehavior ==
    /\ SingleThreaded
    /\ now = 100000
    /\ sophie \in BehaviorStates
    /\ memory = << >>
    /\ op = "init"
    /\ burst = NoBurst
    /\ steps = 0
    /\ arg \in [hour : HourSamples,
                draws : (DrawSamples \cup DailyDrawSamples) \X DailyDrawSamples]
    /\ out = "none"

ApplyDecideBehavior ==
    /\ op = "init"
    /\ out' = decide_behavior(sophie, arg.hour, arg.draws)
    /\ op' = "decide_behavior"
    /\ UNCHANGED <<sophie, memory, now, burst, steps, arg>>
    /\ UNCHANGED conc

SpecBehavior == InitBehavior /\ [][ApplyDecideBehavior]_vars

----------------------------------------------------------------------------
\* The chances of decide_behavior: how many values of the first rand_f32()
\* call lead to each Behavior, the second call's value being given

\* rand_f32() returns (mixed % 10000) / 10000.0
DrawRange == 10000

ChanceStates ==
    { Snapshot(e, 850, 700, em, 100, i, 0, z, 0, 0, 0, 100000) :
        e \in {600, 601}, em \in Emotion, i \in {500, 501}, z \in BOOLEAN }

chances(state, hour, second) ==
    LET result == [r \in 0..(DrawRange - 1) |->
                      decide_behavior(state, hour, <<r, second>>)]
    IN  [b \in Behavior |-> Cardinality({r \in 0..(DrawRange - 1) : result[r] = b})]

InitChances ==
    /\ SingleThreaded
    /\ now = 100000
    /\ sophie \in ChanceStates
    /\ memory = << >>
    /\ op = "init"
    /\ burst = NoBurst
    /\ steps = 0
    /\ arg \in [hour : {4, 5}, second : {3499, 6999}]
    /\ out = "none"

CountChances ==
    /\ op = "init"
    /\ out' = chances(sophie, arg.hour, arg.second)
    /\ op' = "chances"
    /\ UNCHANGED <<sophie, memory, now, burst, steps, arg>>
    /\ UNCHANGED conc

SpecChances == InitChances /\ [][CountChances]_vars

----------------------------------------------------------------------------
\* Start-up (lib.rs run() 237-246): open the database, read the row stored
\* under the key "sophie", deserialize it, or fall back to SophieState::new()

\* The serde_json text of a SophieState, as the set of its members: the path
\* of the member, the JSON type of its value, and the value.
to_string(s) ==
    { [key |-> "physiological.energy", type |-> "number", value |-> s.physiological.energy],
      [key |-> "physiological.hunger", type |-> "number", value |-> s.physiological.hunger],
      [key |-> "physiological.sleepiness", type |-> "number", value |-> s.physiological.sleepiness],
      [key |-> "emotion", type |-> "string", value |-> s.emotion],
      [key |-> "relationship.trust", type |-> "number", value |-> s.relationship.trust],
      [key |-> "relationship.intimacy", type |-> "number", value |-> s.relationship.intimacy],
      [key |-> "relationship.understanding", type |-> "number", value |-> s.relationship.understanding],
      [key |-> "is_sleeping", type |-> "bool", value |-> s.is_sleeping],
      [key |-> "last_interaction_ts", type |-> "number", value |-> s.last_interaction_ts],
      [key |-> "recent_interaction_count", type |-> "number", value |-> s.recent_interaction_count],
      [key |-> "interaction_count_reset_ts", type |-> "number", value |-> s.interaction_count_reset_ts] }

F32Keys ==
    {"physiological.energy", "physiological.hunger", "physiological.sleepiness",
     "relationship.trust", "relationship.intimacy", "relationship.understanding"}

UnsignedKeys ==
    {"last_interaction_ts", "recent_interaction_count", "interaction_count_reset_ts"}

\* a member holds a value its field of SophieState accepts
Accepts(e) ==
    CASE e.key \in F32Keys -> e.type = "number"
      [] e.key \in UnsignedKeys -> e.type = "number" /\ e.value >= 0
      [] e.key = "emotion" -> e.type = "string" /\ e.value \in Emotion
      [] e.key = "is_sleeping" -> e.type = "bool"
      [] OTHER -> TRUE

Member(doc, k) == (CHOOSE e \in doc : e.key = k).value

\* the derived Deserialize: every field present once with a value of its
\* type, members it does not know skipped
Deserializes(text) ==
    /\ text.kind = "json"
    /\ \A k \in F32Keys \cup UnsignedKeys \cup {"emotion", "is_sleeping"} :
          Cardinality({e \in text.doc : e.key = k}) = 1
    /\ \A e \in text.doc : Accepts(e)

from_str(text) ==
    [physiological              |-> [energy |-> Member(text.doc, "physiological.energy"),
                                     hunger |-> Member(text.doc, "physiological.hunger"),
                                     sleepiness |-> Member(text.doc, "physiological.sleepiness")],
     emotion                    |-> Member(text.doc, "emotion"),
     relationship               |-> [trust |-> Member(text.doc, "relationship.trust"),
                                     intimacy |-> Member(text.doc, "relationship.intimacy"),
                                     understanding |-> Member(text.doc, "relationship.understanding")],
     is_sleeping                |-> Member(text.doc, "is_sleeping"),
     last_interaction_ts        |-> Member(text.doc, "last_interaction_ts"),
     recent_interaction_count   |-> Member(text.doc, "recent_interaction_count"),
     interaction_count_reset_ts |-> Member(text.doc, "interaction_count_reset_ts")]

\* MemoryStore::load_state: the text of the row, or None when there is no
\* row or the query fails
load_state(row) == IF row.kind \in {"json", "garbage"} THEN row ELSE [kind |-> "None"]

\* the restore that keeps what it can of a text whose emotion it cannot read
restore_lenient(row, t) ==
    LET state_json == load_state(row)
        patched == [state_json EXCEPT !.doc =
                       {e \in @ : e.key # "emotion"} \cup
                       {[key |-> "emotion", type |-> "string", value |-> "Calm"]}]
    IN  IF state_json.kind = "None" THEN SophieState_new(t)
        ELSE IF Deserializes(state_json) THEN from_str(state_json)
        ELSE IF state_json.kind = "json" /\ Deserializes(patched) THEN from_str(patched)
        ELSE SophieState_new(t)

\* lib.rs 242-246
restore(row, t) ==
    LET state_json == load_state(row)
    IN  IF state_json.kind = "None" THEN SophieState_new(t)
        ELSE IF Deserializes(state_json) THEN from_str(state_json)
        ELSE SophieState_new(t)

\* what a stored text can have wrong
Damaged(doc) ==
    { {e \in doc : e.key # k} : k \in F32Keys \cup UnsignedKeys \cup {"emotion", "is_sleeping"} }
    \cup { {e \in doc : e.key # "emotion"} \cup
           {[key |-> "emotion", type |-> "string", value |-> "Sleepy"]},
           {e \in doc : e.key # "last_interaction_ts"} \cup
           {[key |-> "last_interaction_ts", type |-> "number", value |-> -1]},
           {e \in doc : e.key # "physiological.energy"} \cup
           {[key |-> "physiological.energy", type |-> "string", value |-> "high"]},
           doc \cup {[key |-> "is_sleeping", type |-> "bool", value |-> TRUE],
                     [key |-> "is_sleeping", type |-> "bool", value |-> FALSE]} }

\* the sophie_state row under the key: absent, unreadable, or a text
StoredRows(t) ==
    { [kind |-> "absent"], [kind |-> "unreadable"], [kind |-> "garbage"] }
    \cup { [kind |-> "json", doc |-> to_string(s)] : s \in Restored(t) }
    \cup { [kind |-> "json", doc |-> to_string(s) \cup {[key |-> "name", type |-> "string", value |-> "Sophie"]}] : s \in Restored(t) }
    \cup { [kind |-> "json", doc |-> d] : d \in UNION { Damaged(to_string(s)) : s \in Restored(t) } }

InitStartup ==
    /\ now = 100000
    /\ pc = [main |-> "start"]
    /\ store \in [opens : {"ok", "open_error", "init_error"}, row : StoredRows(now)]
    /\ sophie = "none"
    /\ memory = << >>
    /\ op = "init"
    /\ burst = NoBurst
    /\ steps = 0
    /\ arg = "none"
    /\ out = "none"
    /\ locks = "none"
    /\ sched = "none"
    /\ tasks = "none"
    /\ events = "none"

\* lib.rs 238-239: MemoryStore::open(..).expect(..)
OpenStore ==
    /\ pc.main = "start"
    /\ pc' = [pc EXCEPT !.main = IF store.opens = "ok" THEN "opened" ELSE "panicked"]
    /\ op' = "open"
    /\ UNCHANGED <<sophie, memory, now, burst, steps, arg, out, locks, sched, tasks, events, store>>

\* lib.rs 242-246
RestoreState ==
    /\ pc.main = "opened"
    /\ sophie' = restore(store.row, now)
    /\ pc' = [pc EXCEPT !.main = "running"]
    /\ op' = "restore"
    /\ UNCHANGED <<memory, now, burst, steps, arg, out, locks, sched, tasks, events, store>>

\* lib.rs 304-317: the background loop's first tick, 30 seconds later
FirstTick ==
    /\ pc.main = "running"
    /\ now' = now + 30
    /\ sophie' = tick(sophie, now + 30)
    /\ pc' = [pc EXCEPT !.main = "ticking"]
    /\ op' = "tick"
    /\ UNCHANGED <<memory, burst, steps, arg, out, locks, sched, tasks, events, store>>

SpecStartup == InitStartup /\ [][OpenStore \/ RestoreState \/ FirstTick]_vars

----------------------------------------------------------------------------
\* The unsigned arithmetic of state/mod.rs against a system clock that can be
\* set back.  unix_now() reads SystemTime::now(), which is not monotonic, and
\* `now - self.last_interaction_ts` and `now - self.interaction_count_reset_ts`
\* are plain u64 subtractions: built with overflow checks they panic when the
\* timestamp lies ahead of the clock, built without they wrap around 2^64.

MaxClockSteps == 3

\* 2^64 = 60 * 307445734561825860 + 16, and the low 32 bits of that
\* quotient, which is what `as u32` keeps
WrapQuotient == 1145324612

WrapRemainder == 16

\* seconds the clock moves between two operations; a negative step is the
\* clock being set back
ClockSteps == {30, 600, -40, -3600}

\* ((t - last) / 60) as u32 in wrapping u64 arithmetic, for last - t < 2^31
wrapping_minutes(t, last) ==
    IF t >= last THEN (t - last) \div 60
    ELSE WrapQuotient + ((WrapRemainder - (last - t)) \div 60)

\* t - ts > 600 in wrapping u64 arithmetic: 2^64 - (ts - t) is above 600
wrapping_window_over(t, ts) ==
    IF t >= ts THEN t - ts > 600 ELSE TRUE

\* tick() as it runs without overflow checks
tick_wrapping(s, t) ==
    LET m  == wrapping_minutes(t, s.last_interaction_ts)
        s1 == IF wrapping_window_over(t, s.interaction_count_reset_ts)
              THEN [s EXCEPT !.recent_interaction_count = 0,
                             !.interaction_count_reset_ts = t]
              ELSE s
        s2 == [s1 EXCEPT !.physiological =
                            physiological_tick(s1.physiological, s1.is_sleeping)]
        s3 == sleep_wake(s2)
        has_interaction == m < 2
        s4 == [s3 EXCEPT !.emotion =
                            transition(s3.emotion, has_interaction, m,
                                       s3.physiological.energy,
                                       s3.relationship.intimacy)]
    IN  neglect_decay(s4, m)

\* a subtraction of tick() has its right operand above its left one
tick_underflows(s, t) ==
    t < s.last_interaction_ts \/ t < s.interaction_count_reset_ts

Completed(value) == [status |-> "ok", value |-> value]

Panicked == [status |-> "panic", value |-> "none"]

Wrapped(value) == [status |-> "wrapped", value |-> value]

InitClock ==
    /\ SingleThreaded
    /\ now = 100000
    /\ sophie \in {SophieState_new(now)} \cup Restored(now)
    /\ memory = << >>
    /\ op = "init"
    /\ burst = NoBurst
    /\ steps = 0
    /\ arg \in [overflow_checks : BOOLEAN]
    /\ out = Completed("none")

\* a panic unwinds the thread with the sophie mutex held: nothing runs after
ClockMoves ==
    /\ steps < MaxClockSteps
    /\ out.status # "panic"
    /\ \E d \in ClockSteps : now' = now + d
    /\ steps' = steps + 1
    /\ UNCHANGED <<sophie, memory, op, burst, arg, out>>
    /\ UNCHANGED conc

TickOnClock ==
    /\ steps < MaxClockSteps
    /\ out.status # "panic"
    /\ IF tick_underflows(sophie, now)
       THEN IF arg.overflow_checks
            THEN sophie' = sophie /\ out' = Panicked
            ELSE sophie' = tick_wrapping(sophie, now) /\ out' = Wrapped("none")
       ELSE sophie' = tick(sophie, now) /\ out' = Completed("none")
    /\ op' = "tick"
    /\ steps' = steps + 1
    /\ UNCHANGED <<memory, now, burst, arg>>
    /\ UNCHANGED conc

RecordInteractionOnClock ==
    /\ steps < MaxClockSteps
    /\ out.status # "panic"
    /\ sophie' = record_interaction(sophie, now)
    /\ out' = Completed("none")
    /\ op' = "record_interaction"
    /\ steps' = steps + 1
    /\ UNCHANGED <<memory, now, burst, arg>>
    /\ UNCHANGED conc

MinutesSinceInteractionOnClock ==
    /\ steps < MaxClockSteps
    /\ out.status # "panic"
    /\ out' = IF now >= sophie.last_interaction_ts
              THEN Completed(minutes_since_interaction(sophie, now))
              ELSE IF arg.overflow_checks THEN Panicked
              ELSE Wrapped(wrapping_minutes(now, sophie.last_interaction_ts))
    /\ op' = "minutes_since_interaction"
    /\ steps' = steps + 1
    /\ UNCHANGED <<sophie, memory, now, burst, arg>>
    /\ UNCHANGED conc

NextClock ==
    \/ ClockMoves
    \/ TickOnClock
    \/ RecordInteractionOnClock
    \/ MinutesSinceInteractionOnClock

SpecClock == InitClock /\ [][NextClock]_vars

----------------------------------------------------------------------------
\* The threads of the running program (lib.rs): the background loop, the
\* thread that runs the command handlers, and the spawned text-generation
\* tasks, sharing AppState's two mutexes.  Each thread runs a list of
\* instructions; pc holds the index of the one it executes next.

MaxRounds == 3

MaxCalls == 1

\* lines 50-72 of tick(), given the minutes computed on line 41
tick_finish(s1, m) ==
    LET s2 == [s1 EXCEPT !.physiological =
                            physiological_tick(s1.physiological, s1.is_sleeping)]
        s3 == sleep_wake(s2)
        s4 == [s3 EXCEPT !.emotion =
                            transition(s3.emotion, m < 2, m,
                                       s3.physiological.energy,
                                       s3.relationship.intimacy)]
    IN  neglect_decay(s4, m)

\* SophieState::new() left alone for n ticks, 30 seconds apart, read at time
\* t, 1790 seconds after it was built
Ticked(n, t) ==
    IF n = 58
    THEN Snapshot(510, 374, 216, "Happy", 100, 50, 0, FALSE, 0, 1790, 530, t)
    ELSE Snapshot(505, 377, 218, "Happy", 100, 50, 0, FALSE, 0, 1790, 530, t)

\* lib.rs 309-400: what one round of the loop executes once tick_counter is c
RoundProgram(c, has_key) ==
    (IF c % 3 = 0
     THEN <<"lock", "tick_begin", "tick_end">>
          \o (IF c % 6 = 0 THEN <<"save_begin", "save_end">> ELSE << >>)
          \o <<"unlock">>
     ELSE << >>)
    \o <<"lock", "broadcast">>
    \o (IF has_key /\ c % 180 = 0 THEN <<"lock", "copy", "unlock", "spawn">> ELSE << >>)
    \o (IF c % 7 = 0 THEN <<"lock", "rule_thought">> ELSE << >>)
    \o <<"sleep">>

Commands == {"get_sophie_state", "click_sophie", "feed_sophie", "speak_to_sophie"}

\* speak_to_sophie that starts the request before it drops the guard
Program_spawn_locked(cmd) ==
    CASE cmd = "get_sophie_state" -> <<"lock", "snapshot", "unlock">>
      [] cmd = "speak_to_sophie" ->
            <<"lock", "mutate", "remember", "snapshot", "spawn", "unlock">>
      [] OTHER -> <<"lock", "mutate", "remember", "snapshot", "unlock">>

\* click_sophie that works on the state without taking the mutex
Program_unlocked(cmd) ==
    CASE cmd = "get_sophie_state" -> <<"lock", "snapshot", "unlock">>
      [] cmd = "speak_to_sophie" ->
            <<"lock", "mutate", "remember", "snapshot", "unlock", "spawn">>
      [] cmd = "click_sophie" -> <<"mutate", "remember", "snapshot">>
      [] OTHER -> <<"lock", "mutate", "remember", "snapshot", "unlock">>

\* lib.rs 85-193: what each command handler executes
Program(cmd) ==
    CASE cmd = "get_sophie_state" -> <<"lock", "snapshot", "unlock">>
      [] cmd = "speak_to_sophie" ->
            <<"lock", "mutate", "remember", "snapshot", "unlock", "spawn">>
      [] OTHER -> <<"lock", "mutate", "remember", "snapshot", "unlock">>

\* the instruction a thread is at
Instr(th) ==
    IF th = "sched" THEN sched.round[pc.sched]
    ELSE IF pc.ui = 0 THEN "idle"
    ELSE Program(arg.cmd)[pc.ui]

\* record_interaction() and the model mutator of a command
Mutated(cmd, s, t) ==
    CASE cmd = "click_sophie" -> click_sophie(s, t)
      [] cmd = "feed_sophie" -> feed_sophie(s, t)
      [] cmd = "speak_to_sophie" -> speak_to_sophie(s, t)
      [] OTHER -> s

\* the memories row a command adds
Remembered(cmd) ==
    CASE cmd = "click_sophie" -> Row("interaction", 3)
      [] cmd = "feed_sophie" -> Row("interaction", 6)
      [] OTHER -> Row("user_speech", 7)

\* lib.rs 65-82: the state's fields, the behavior decided for them and the
\* minutes since the last interaction
make_snapshot(s, t, hour, draws) ==
    [energy |-> s.physiological.energy, hunger |-> s.physiological.hunger,
     sleepiness |-> s.physiological.sleepiness, emotion |-> s.emotion,
     trust |-> s.relationship.trust, intimacy |-> s.relationship.intimacy,
     understanding |-> s.relationship.understanding,
     is_sleeping |-> s.is_sleeping,
     behavior |-> decide_behavior(s, hour, draws),
     minutes_since_interaction |-> minutes_since_interaction(s, t)]

\* lib.rs 197-201
chrono_hour(t) == ((t \div 3600) + 8) % 24

\* the draws behind a snapshot: one low, one high
SnapshotDraws == {<<0, 3499>>, <<9999, 8500>>}

\* lib.rs 410-460: whether rule_based_thought returns a text, against the
\* clock's nanoseconds modulo 5 and modulo 100
rule_based_thought(s, n5, r) ==
    IF s.physiological.hunger > 800 THEN TRUE
    ELSE IF s.physiological.sleepiness > 750 /\ ~s.is_sleeping THEN TRUE
    ELSE IF s.is_sleeping THEN n5 = 0
    ELSE CASE s.emotion = "Happy" -> r < 35
           [] s.emotion = "Bored" -> r < 40
           [] s.emotion = "Irritated" -> r < 20
           [] s.emotion = "Down" -> r < 15
           [] s.emotion = "Curious" -> r < 30
           [] s.emotion = "Playful" -> r < 25
           [] s.emotion = "Calm" -> r < 15

\* what a text-generation call can come to; a call that never returns is a
\* task that stays pending
Outcomes == {"ok_thought", "ok_quiet", "err"}

Emitted(ev, name) == [ev EXCEPT ![name] = @ + 1]

\* the Err arm that sends the request again
on_response_retry(kind, outcome, ev, mem) ==
    IF outcome = "err" THEN [events |-> ev, memory |-> mem, again |-> TRUE]
    ELSE LET shown == IF outcome = "ok_thought" THEN Emitted(ev, "thought") ELSE ev
         IN  IF kind = "speech"
             THEN [events |-> Emitted(shown, "speech_response"), memory |-> mem, again |-> FALSE]
             ELSE [events |-> shown, memory |-> Append(mem, Row("thought", 5)), again |-> FALSE]

\* lib.rs 156-189 and 364-386: the match on the result of chat()
on_response(kind, outcome, ev, mem) ==
    IF outcome = "err" THEN [events |-> ev, memory |-> mem, again |-> FALSE]
    ELSE LET shown == IF outcome = "ok_thought" THEN Emitted(ev, "thought") ELSE ev
         IN  IF kind = "speech"
             THEN [events |-> Emitted(shown, "speech_response"), memory |-> mem, again |-> FALSE]
             ELSE [events |-> shown, memory |-> Append(mem, Row("thought", 5)), again |-> FALSE]

\* The loop has slept through round 179 of a program started 1790 seconds
\* ago and left alone since: 59 ticks done, the last one 20 seconds ago, the
\* state of tick 58 in the store.
InitThreads ==
    /\ now = 100000
    /\ sophie = Ticked(59, now)
    /\ memory = << >>
    /\ op = "init"
    /\ burst = NoBurst
    /\ steps = 0
    /\ arg = [cmd |-> "none", calls |-> 0, before |-> "none", t |-> 0, prompt |-> "none"]
    /\ out = "none"
    /\ pc = [sched |-> 1, ui |-> 0]
    /\ locks = [sophie |-> "free", memory |-> "free"]
    /\ \E has_key \in BOOLEAN :
          sched = [tick_counter |-> 179, has_key |-> has_key, rounds |-> 0,
                   round |-> <<"sleep">>, before |-> "none", t |-> 0, m |-> 0,
                   last_tick |-> now - 20, json |-> "none", prompt |-> "none"]
    /\ tasks = << >>
    /\ events = [update |-> 0, thought |-> 0, speech_response |-> 0]
    /\ store = [opens |-> "ok",
                row |-> [kind |-> "json",
                         doc |-> to_string(Ticked(58, now))]]

SchedAt(i) == sched.round[pc.sched] = i

SchedOn == pc' = [pc EXCEPT !.sched = @ + 1]

UiAt(i) == pc.ui > 0 /\ Program(arg.cmd)[pc.ui] = i

UiOn == pc' = [pc EXCEPT !.ui = IF @ = Len(Program(arg.cmd)) THEN 0 ELSE @ + 1]

\* lib.rs 309-310: thread::sleep(10 s); tick_counter += 1
Sleep ==
    /\ SchedAt("sleep")
    /\ sched.rounds < MaxRounds
    /\ now' = now + 10
    /\ sched' = [sched EXCEPT !.tick_counter = @ + 1, !.rounds = @ + 1,
                              !.round = RoundProgram(sched.tick_counter + 1, sched.has_key)]
    /\ pc' = [pc EXCEPT !.sched = 1]
    /\ op' = "sched.sleep"
    /\ UNCHANGED <<sophie, memory, burst, steps, arg, out, locks, tasks, events, store>>

\* state_ref.sophie.lock().unwrap()
SchedLock ==
    /\ SchedAt("lock")
    /\ locks.sophie = "free"
    /\ locks' = [locks EXCEPT !.sophie = "sched"]
    /\ sched' = [sched EXCEPT !.before = sophie]
    /\ SchedOn
    /\ op' = "sched.lock"
    /\ UNCHANGED <<sophie, memory, now, burst, steps, arg, out, tasks, events, store>>

\* state/mod.rs 40-47: the clock, the minutes, the counter window
TickBegin ==
    /\ SchedAt("tick_begin")
    /\ sophie' = reset_counter(sophie, now)
    /\ sched' = [sched EXCEPT !.t = now, !.m = minutes_since_interaction(sophie, now),
                              !.last_tick = now]
    /\ SchedOn
    /\ op' = "sched.tick_begin"
    /\ UNCHANGED <<memory, now, burst, steps, arg, out, locks, tasks, events, store>>

\* state/mod.rs 50-72
TickEnd ==
    /\ SchedAt("tick_end")
    /\ sophie' = tick_finish(sophie, sched.m)
    /\ SchedOn
    /\ op' = "sched.tick_end"
    /\ UNCHANGED <<memory, now, burst, steps, arg, out, locks, sched, tasks, events, store>>

\* lib.rs 321-322: serde_json::to_string(&*sophie), memory.lock()
SaveBegin ==
    /\ SchedAt("save_begin")
    /\ locks.memory = "free"
    /\ locks' = [locks EXCEPT !.memory = "sched"]
    /\ sched' = [sched EXCEPT !.json = to_string(sophie)]
    /\ SchedOn
    /\ op' = "sched.save_begin"
    /\ UNCHANGED <<sophie, memory, now, burst, steps, arg, out, tasks, events, store>>

\* lib.rs 323-324: save_state returns, the memory guard is dropped
SaveEnd ==
    /\ SchedAt("save_end")
    /\ store' = [store EXCEPT !.row = [kind |-> "json", doc |-> sched.json]]
    /\ locks' = [locks EXCEPT !.memory = "free"]
    /\ SchedOn
    /\ op' = "sched.save_end"
    /\ UNCHANGED <<sophie, memory, now, burst, steps, arg, out, sched, tasks, events>>

\* the guard goes out of scope (lib.rs 327) or is dropped (357)
SchedUnlock ==
    /\ SchedAt("unlock")
    /\ locks' = [locks EXCEPT !.sophie = "free"]
    /\ SchedOn
    /\ op' = "sched.unlock"
    /\ UNCHANGED <<sophie, memory, now, burst, steps, arg, out, sched, tasks, events, store>>

\* lib.rs 331-334: make_snapshot, drop, emit
Broadcast ==
    /\ SchedAt("broadcast")
    /\ locks' = [locks EXCEPT !.sophie = "free"]
    /\ events' = Emitted(events, "update")
    /\ SchedOn
    /\ op' = "sched.broadcast"
    /\ UNCHANGED <<sophie, memory, now, burst, steps, arg, out, sched, tasks, store>>

\* lib.rs 340-356: the recent memories and the fields of the thinking prompt
Copy ==
    /\ SchedAt("copy")
    /\ locks.memory = "free"
    /\ sched' = [sched EXCEPT !.prompt =
                    [emotion |-> sophie.emotion,
                     intimacy |-> sophie.relationship.intimacy,
                     trust |-> sophie.relationship.trust]]
    /\ SchedOn
    /\ op' = "sched.copy"
    /\ UNCHANGED <<sophie, memory, now, burst, steps, arg, out, locks, tasks, events, store>>

\* lib.rs 362: rt.spawn of the thinking request
SchedSpawn ==
    /\ SchedAt("spawn")
    /\ tasks' = Append(tasks, [kind |-> "thinking", prompt |-> sched.prompt, status |-> "pending"])
    /\ SchedOn
    /\ op' = "sched.spawn"
    /\ UNCHANGED <<sophie, memory, now, burst, steps, arg, out, locks, sched, events, store>>

\* lib.rs 391-399
RuleThought ==
    /\ SchedAt("rule_thought")
    /\ locks' = [locks EXCEPT !.sophie = "free"]
    /\ \E n5 \in {0, 4}, r \in {0, 99} :
          events' = IF rule_based_thought(sophie, n5, r)
                    THEN Emitted(events, "thought") ELSE events
    /\ SchedOn
    /\ op' = "sched.rule_thought"
    /\ UNCHANGED <<sophie, memory, now, burst, steps, arg, out, sched, tasks, store>>

\* the front end invokes a command
Invoke ==
    /\ pc.ui = 0
    /\ arg.calls < MaxCalls
    /\ \E cmd \in Commands :
          arg' = [arg EXCEPT !.cmd = cmd, !.calls = @ + 1]
    /\ pc' = [pc EXCEPT !.ui = 1]
    /\ op' = "ui.invoke"
    /\ UNCHANGED <<sophie, memory, now, burst, steps, out, locks, sched, tasks, events, store>>

\* app_state.sophie.lock().unwrap()
UiLock ==
    /\ UiAt("lock")
    /\ locks.sophie = "free"
    /\ locks' = [locks EXCEPT !.sophie = "ui"]
    /\ arg' = [arg EXCEPT !.before = sophie]
    /\ UiOn
    /\ op' = "ui.lock"
    /\ UNCHANGED <<sophie, memory, now, burst, steps, out, sched, tasks, events, store>>

\* record_interaction() and the mutator of the command
UiMutate ==
    /\ UiAt("mutate")
    /\ sophie' = Mutated(arg.cmd, sophie, now)
    /\ arg' = [arg EXCEPT !.t = now]
    /\ UiOn
    /\ op' = "ui.mutate"
    /\ UNCHANGED <<memory, now, burst, steps, out, locks, sched, tasks, events, store>>

\* if let Ok(mem) = app_state.memory.lock() { mem.add(..) }
UiRemember ==
    /\ UiAt("remember")
    /\ locks.memory = "free"
    /\ memory' = Append(memory, Remembered(arg.cmd))
    /\ UiOn
    /\ op' = "ui.remember"
    /\ UNCHANGED <<sophie, now, burst, steps, arg, out, locks, sched, tasks, events, store>>

\* make_snapshot(&sophie), and for speak_to_sophie the fields of the prompt
UiSnapshot ==
    /\ UiAt("snapshot")
    /\ \E draws \in SnapshotDraws :
          out' = make_snapshot(sophie, now, chrono_hour(now), draws)
    /\ arg' = [arg EXCEPT !.prompt =
                  IF arg.cmd = "speak_to_sophie"
                  THEN [emotion |-> sophie.emotion,
                        intimacy |-> sophie.relationship.intimacy,
                        trust |-> sophie.relationship.trust]
                  ELSE @]
    /\ UiOn
    /\ op' = "ui.snapshot"
    /\ UNCHANGED <<sophie, memory, now, burst, steps, locks, sched, tasks, events, store>>

\* drop(sophie), or the guard going out of scope as the handler returns
UiUnlock ==
    /\ UiAt("unlock")
    /\ locks' = [locks EXCEPT !.sophie = "free"]
    /\ UiOn
    /\ op' = "ui.unlock"
    /\ UNCHANGED <<sophie, memory, now, burst, steps, arg, out, sched, tasks, events, store>>

\* lib.rs 142-155: the speech prompt is built and the request spawned
UiSpawn ==
    /\ UiAt("spawn")
    /\ tasks' = Append(tasks, [kind |-> "speech", prompt |-> arg.prompt, status |-> "pending"])
    /\ UiOn
    /\ op' = "ui.spawn"
    /\ UNCHANGED <<sophie, memory, now, burst, steps, arg, out, locks, sched, events, store>>

\* chat() returns to a spawned task, which runs its match to the end; the
\* thinking task's mem.add needs the memory mutex
Respond ==
    /\ \E i \in DOMAIN tasks, outcome \in Outcomes :
          /\ tasks[i].status = "pending"
          /\ (tasks[i].kind = "thinking" /\ outcome # "err") => locks.memory = "free"
          /\ LET r == on_response(tasks[i].kind, outcome, events, memory)
                 answered == [tasks EXCEPT ![i].status = outcome]
             IN  /\ events' = r.events
                 /\ memory' = r.memory
                 /\ tasks' = IF r.again
                             THEN Append(answered, [tasks[i] EXCEPT !.status = "pending"])
                             ELSE answered
    /\ op' = "task.respond"
    /\ UNCHANGED <<sophie, now, burst, steps, arg, out, pc, locks, sched, store>>

SchedStep ==
    \/ Sleep
    \/ SchedLock
    \/ TickBegin
    \/ TickEnd
    \/ SaveBegin
    \/ SaveEnd
    \/ SchedUnlock
    \/ Broadcast
    \/ Copy
    \/ SchedSpawn
    \/ RuleThought

UiStep ==
    \/ Invoke
    \/ UiLock
    \/ UiMutate
    \/ UiRemember
    \/ UiSnapshot
    \/ UiUnlock
    \/ UiSpawn

NextThreads == SchedStep \/ UiStep \/ Respond

SpecThreads == InitThreads /\ [][NextThreads]_vars

----------------------------------------------------------------------------
\* The two mutexes alone: every thread's program reduced to its lock()
\* calls and guard drops, each lock() a step of its own that waits until the
\* mutex is free.  The agent state and the store are left out; the threads,
\* their programs and the counter of the loop are those of SpecThreads.

\* the lock() calls and guard drops an instruction stands for
LockSteps(instr) ==
    CASE instr = "lock" -> <<"lock_sophie">>
      [] instr \in {"unlock", "broadcast", "rule_thought"} -> <<"unlock_sophie">>
      [] instr \in {"remember", "copy"} -> <<"lock_memory", "unlock_memory">>
      [] instr = "save_begin" -> <<"lock_memory">>
      [] instr = "save_end" -> <<"unlock_memory">>
      [] instr \in {"spawn", "sleep"} -> <<instr>>
      [] OTHER -> << >>

RECURSIVE Locking(_)
Locking(program) ==
    IF program = << >> THEN << >>
    ELSE LockSteps(Head(program)) \o Locking(Tail(program))

\* a response task that takes the sophie mutex inside the memory guard
response_task_nested(kind, outcome) ==
    IF kind = "thinking" /\ outcome # "err"
    THEN <<"lock_memory", "lock_sophie", "unlock_sophie", "unlock_memory">>
    ELSE << >>

\* lib.rs 155-190, 362-386: what a spawned task does once the reply is in
response_task(kind, outcome) ==
    IF kind = "thinking" /\ outcome # "err"
    THEN <<"lock_memory", "unlock_memory">>
    ELSE << >>

\* one speech request per speak_to_sophie call; one thinking request, since
\* tick_counter % 180 = 0 holds once in the rounds of the model
MaxTasks == MaxCalls + 1

\* the name under which the i-th spawned task holds a mutex
TaskNames == [i \in 1..MaxTasks |-> <<"task1", "task2", "task3", "task4">>[i]]

Mutexes == {"sophie", "memory"}

MutexOf(instr) == IF instr \in {"lock_sophie", "unlock_sophie"} THEN "sophie" ELSE "memory"

\* the instruction each thread is at
LockInstr(th) ==
    IF th = "sched" THEN sched.round[pc.sched]
    ELSE IF th = "ui"
    THEN IF pc.ui = 0 THEN "idle" ELSE arg.program[pc.ui]
    ELSE LET i == CHOOSE k \in DOMAIN TaskNames : TaskNames[k] = th
         IN  IF i \in DOMAIN tasks /\ tasks[i].status = "running"
             THEN tasks[i].program[tasks[i].pc]
             ELSE "idle"

LockThreads == {"sched", "ui"} \cup {TaskNames[i] : i \in DOMAIN TaskNames}

\* th has called lock() on mutex l and the call has not returned
Waits(th, l) == LockInstr(th) = "lock_" \o l

InitLocks ==
    /\ now = 100000
    /\ sophie = Ticked(59, now)
    /\ memory = << >>
    /\ op = "init"
    /\ burst = NoBurst
    /\ steps = 0
    /\ arg = [cmd |-> "none", calls |-> 0, program |-> << >>]
    /\ out = "none"
    /\ pc = [sched |-> 1, ui |-> 0]
    /\ locks = [sophie |-> "free", memory |-> "free"]
    /\ \E has_key \in BOOLEAN :
          sched = [tick_counter |-> 179, has_key |-> has_key, rounds |-> 0,
                   round |-> <<"sleep">>]
    /\ tasks = << >>
    /\ events = "none"
    /\ store = "none"

\* Mutex::lock() returns: the mutex was free and now belongs to the caller
Acquire(th) ==
    /\ LockInstr(th) \in {"lock_sophie", "lock_memory"}
    /\ locks[MutexOf(LockInstr(th))] = "free"
    /\ locks' = [locks EXCEPT ![MutexOf(LockInstr(th))] = th]

\* the guard is dropped
Release(th) ==
    /\ LockInstr(th) \in {"unlock_sophie", "unlock_memory"}
    /\ locks' = [locks EXCEPT ![MutexOf(LockInstr(th))] = "free"]

UiNext == pc' = [pc EXCEPT !.ui = IF @ = Len(arg.program) THEN 0 ELSE @ + 1]

TaskNext(i) ==
    tasks' = [tasks EXCEPT ![i] = IF @.pc = Len(@.program)
                                  THEN [@ EXCEPT !.status = "done"]
                                  ELSE [@ EXCEPT !.pc = @ + 1]]

LoopAcquire ==
    /\ Acquire("sched")
    /\ SchedOn
    /\ op' = "sched.acquire"
    /\ UNCHANGED <<sophie, memory, now, burst, steps, arg, out, sched, tasks, events, store>>

LoopRelease ==
    /\ Release("sched")
    /\ SchedOn
    /\ op' = "sched.release"
    /\ UNCHANGED <<sophie, memory, now, burst, steps, arg, out, sched, tasks, events, store>>

\* lib.rs 362: rt.spawn of the thinking request
LoopSpawn ==
    /\ LockInstr("sched") = "spawn"
    /\ tasks' = Append(tasks, [kind |-> "thinking", status |-> "pending",
                               program |-> << >>, pc |-> 1])
    /\ SchedOn
    /\ op' = "sched.spawn"
    /\ UNCHANGED <<sophie, memory, now, burst, steps, arg, out, locks, sched, events, store>>

\* lib.rs 309-310: thread::sleep(10 s); tick_counter += 1
LoopSleep ==
    /\ LockInstr("sched") = "sleep"
    /\ sched.rounds < MaxRounds
    /\ now' = now + 10
    /\ sched' = [sched EXCEPT !.tick_counter = @ + 1, !.rounds = @ + 1,
                              !.round = Locking(RoundProgram(sched.tick_counter + 1,
                                                             sched.has_key))]
    /\ pc' = [pc EXCEPT !.sched = 1]
    /\ op' = "sched.sleep"
    /\ UNCHANGED <<sophie, memory, burst, steps, arg, out, locks, tasks, events, store>>

\* the front end invokes a command
HandlerInvoke ==
    /\ pc.ui = 0
    /\ arg.calls < MaxCalls
    /\ \E cmd \in Commands :
          arg' = [cmd |-> cmd, calls |-> arg.calls + 1, program |-> Locking(Program(cmd))]
    /\ pc' = [pc EXCEPT !.ui = 1]
    /\ op' = "ui.invoke"
    /\ UNCHANGED <<sophie, memory, now, burst, steps, out, locks, sched, tasks, events, store>>

HandlerAcquire ==
    /\ Acquire("ui")
    /\ UiNext
    /\ op' = "ui.acquire"
    /\ UNCHANGED <<sophie, memory, now, burst, steps, arg, out, sched, tasks, events, store>>

HandlerRelease ==
    /\ Release("ui")
    /\ UiNext
    /\ op' = "ui.release"
    /\ UNCHANGED <<sophie, memory, now, burst, steps, arg, out, sched, tasks, events, store>>

\* lib.rs 155: tokio_rt.spawn of the speech request
HandlerSpawn ==
    /\ LockInstr("ui") = "spawn"
    /\ tasks' = Append(tasks, [kind |-> "speech", status |-> "pending",
                               program |-> << >>, pc |-> 1])
    /\ UiNext
    /\ op' = "ui.spawn"
    /\ UNCHANGED <<sophie, memory, now, burst, steps, arg, out, locks, sched, events, store>>

\* llm_client.chat(..).await returns
TaskAnswer(i) ==
    /\ i \in DOMAIN tasks
    /\ tasks[i].status = "pending"
    /\ \E outcome \in Outcomes :
          tasks' = [tasks EXCEPT ![i] =
                       IF response_task(@.kind, outcome) = << >>
                       THEN [@ EXCEPT !.status = "done"]
                       ELSE [@ EXCEPT !.status = "running",
                                      !.program = response_task(tasks[i].kind, outcome)]]
    /\ op' = "task.answer"
    /\ UNCHANGED <<sophie, memory, now, burst, steps, arg, out, pc, locks, sched, events, store>>

TaskAcquire(i) ==
    /\ i \in DOMAIN tasks
    /\ Acquire(TaskNames[i])
    /\ TaskNext(i)
    /\ op' = "task.acquire"
    /\ UNCHANGED <<sophie, memory, now, burst, steps, arg, out, pc, sched, events, store>>

TaskRelease(i) ==
    /\ i \in DOMAIN tasks
    /\ Release(TaskNames[i])
    /\ TaskNext(i)
    /\ op' = "task.release"
    /\ UNCHANGED <<sophie, memory, now, burst, steps, arg, out, pc, sched, events, store>>

NextLocks ==
    \/ LoopAcquire
    \/ LoopRelease
    \/ LoopSpawn
    \/ LoopSleep
    \/ HandlerInvoke
    \/ HandlerAcquire
    \/ HandlerRelease
    \/ HandlerSpawn
    \/ \E i \in DOMAIN TaskNames : TaskAnswer(i)
    \/ \E i \in DOMAIN TaskNames : TaskAcquire(i)
    \/ \E i \in DOMAIN TaskNames : TaskRelease(i)

\* A thread that can run does run (the loop never waits on anything but a
\* mutex and its own 10-second sleep), and a lock() call returns if the mutex
\* is free again and again: the loop holds no mutex during its sleep, a
\* handler and a task hold theirs for one database statement.
FairLocks ==
    /\ WF_vars(LoopRelease)
    /\ WF_vars(LoopSpawn)
    /\ WF_vars(LoopSleep)
    /\ SF_vars(LoopAcquire)
    /\ WF_vars(HandlerRelease)
    /\ WF_vars(HandlerSpawn)
    /\ SF_vars(HandlerAcquire)
    /\ \A i \in DOMAIN TaskNames : WF_vars(TaskRelease(i)) /\ SF_vars(TaskAcquire(i))

SpecLocks == InitLocks /\ [][NextLocks]_vars /\ FairLocks

----------------------------------------------------------------------------
\* The loop left to itself: tick() every 30 seconds and no command.  tick()
\* reads the clock only through now - last_interaction_ts and
\* now - interaction_count_reset_ts, so instead of moving now forward the
\* step moves both timestamps 30 seconds back; a last interaction more than
\* MaxMinutes ago is kept at MaxMinutes, beyond every threshold of tick().

TickPeriod == 30

Older(s, t) ==
    [s EXCEPT !.last_interaction_ts = Max(@ - TickPeriod, t - MaxMinutes * 60),
              !.interaction_count_reset_ts = Max(@ - TickPeriod, t - MaxMinutes * 60)]

InitTicks == Init

\* tick() of state/mod.rs 39-73, statement by statement
TickAgain ==
    /\ \E s0 \in {Older(sophie, now)} :
       \E m \in {minutes_since_interaction(s0, now)} :
       \E s1 \in {reset_counter(s0, now)} :
       \E p \in {physiological_tick(s1.physiological, s1.is_sleeping)} :
       \E s3 \in {sleep_wake([s1 EXCEPT !.physiological = p])} :
       \E e \in {transition(s3.emotion, m < 2, m, p.energy, s3.relationship.intimacy)} :
          sophie' = neglect_decay([s3 EXCEPT !.emotion = e], m)
    /\ op' = "tick"
    /\ UNCHANGED <<memory, now, burst, steps, arg, out>>
    /\ UNCHANGED conc

\* the loop of lib.rs 308 has no exit: tick() keeps being invoked
SpecTicks == InitTicks /\ [][TickAgain]_vars /\ WF_vars(TickAgain)

----------------------------------------------------------------------------
\* decide_behavior called again and again on one snapshot at one hour.  Each
\* rand_f32() call reads the sub-second nanoseconds of the system clock
\* (behavior/mod.rs 113-122), so every evaluation makes its own draws.

MaxEvaluations == 2

InitDeterminism ==
    /\ SingleThreaded
    /\ now = 100000
    /\ sophie \in BehaviorStates
    /\ memory = << >>
    /\ op = "init"
    /\ burst = NoBurst
    /\ steps = 0
    /\ arg \in [hour : HourSamples]
    /\ out = << >>

\* one more evaluation; out collects the results in order
EvaluateAgain ==
    /\ steps < MaxEvaluations
    /\ \E draws \in (DrawSamples \cup DailyDrawSamples) \X DailyDrawSamples :
          out' = Append(out, decide_behavior(sophie, arg.hour, draws))
    /\ op' = "decide_behavior"
    /\ steps' = steps + 1
    /\ UNCHANGED <<sophie, memory, now, burst, arg>>
    /\ UNCHANGED conc

SpecDeterminism == InitDeterminism /\ [][EvaluateAgain]_vars

----------------------------------------------------------------------------
\* Properties

\* the step just taken was one of the named operations (the clock stands
\* still during an operation and moves in every Advance step)
Did(names) == now' = now /\ op' \in names

\* the operations that call record_interaction()
RecordOps == {"record_interaction", "click_sophie", "feed_sophie", "speak_to_sophie"}

InRange(v) == v \in 0..1000

\* C1: after any sequence of tick, feed, on_positive_interaction,
\* on_conversation, on_neglect and record_interaction calls, each of energy,
\* hunger, sleepiness, trust, intimacy and understanding lies in [0,100].
C1_Bounds ==
    /\ InRange(sophie.physiological.energy)
    /\ InRange(sophie.physiological.hunger)
    /\ InRange(sophie.physiological.sleepiness)
    /\ InRange(sophie.relationship.trust)
    /\ InRange(sophie.relationship.intimacy)
    /\ InRange(sophie.relationship.understanding)

\* a feed command has run with hunger 30 below its floor and trust and
\* intimacy at their ceiling
C1_Witness ==
    /\ op = "feed_sophie"
    /\ sophie.physiological.hunger = 0
    /\ sophie.relationship.trust = 1000
    /\ sophie.relationship.intimacy = 1000
    /\ sophie.relationship.understanding = 1000

\* C2: across every operation, understanding after the step is greater than
\* or equal to understanding before it.
C2_MonotoneUnderstanding ==
    [][sophie'.relationship.understanding >= sophie.relationship.understanding]_vars

\* understanding has grown by three conversations and survived a neglect decay
C2_Witness ==
    /\ op = "on_neglect"
    /\ sophie.relationship.understanding = 30
    /\ sophie.relationship.trust = 499

\* C3: the table of section 4.3, one row per current emotion, each row a list
\* of (guard, next) pairs read top to bottom
C3_Table(a) ==
    [Calm      |-> << <<a.has_interaction /\ a.energy > 500, "Happy">>,
                      <<a.minutes_since_interaction > 120, "Bored">> >>,
     Happy     |-> << <<a.minutes_since_interaction > 60, "Calm">> >>,
     Bored     |-> << <<a.has_interaction, "Happy">>,
                      <<a.minutes_since_interaction > 240 /\ a.intimacy > 400,
                        "Irritated">>,
                      <<a.minutes_since_interaction > 240 /\ a.intimacy <= 400,
                        "Down">> >>,
     Irritated |-> << <<a.minutes_since_interaction > 30 /\ ~a.has_interaction,
                        "Calm">> >>,
     Down      |-> << <<a.has_interaction /\ a.intimacy > 300, "Calm">> >>,
     Curious   |-> << <<a.minutes_since_interaction > 10, "Calm">> >>,
     Playful   |-> << <<a.energy < 400, "Calm">>,
                      <<a.minutes_since_interaction > 30, "Bored">> >>]

\* first matching guard wins, else stay
C3_FirstMatch(rows, stay) ==
    LET hits == {i \in 1..Len(rows) : rows[i][1]}
    IN  IF hits = {} THEN stay
        ELSE rows[CHOOSE i \in hits : \A j \in hits : i <= j][2]

\* C3: for every current emotion and every combination of inputs,
\* Emotion::transition returns the emotion the section 4.3 table gives, and
\* the result is one of the 7 defined emotions.
C3_TransitionTable ==
    op = "transition" =>
        /\ out = C3_FirstMatch(C3_Table(arg)[arg.self], arg.self)
        /\ out \in Emotion

\* the third row of the Bored entry has fired
C3_Witness ==
    /\ op = "transition"
    /\ arg.self = "Bored"
    /\ arg.intimacy = 400
    /\ out = "Down"

\* C4: decide_behavior applies a strict first-match precedence whatever the
\* emotion, hour and draws: is_sleeping gives Sleep; otherwise sleepiness > 70
\* gives Sleep; otherwise energy < 20 gives Sit; otherwise hunger > 85 gives
\* Walk; only when none of the four holds does the emotion decide.
C4_Precedence ==
    op = "decide_behavior" =>
        LET p == sophie.physiological
        IN  IF sophie.is_sleeping THEN out = "Sleep"
            ELSE IF p.sleepiness > 700 THEN out = "Sleep"
            ELSE IF p.energy < 200 THEN out = "Sit"
            ELSE IF p.hunger > 850 THEN out = "Walk"
            ELSE /\ sophie.emotion = "Irritated" => out = "Sit"
                 /\ sophie.emotion = "Down" => out = "Sleep"
                 /\ sophie.emotion = "Curious" => out = "Alert"
                 /\ sophie.emotion = "Playful" => out \in {"Run", "Walk"}
                 /\ sophie.emotion = "Bored" => out \in {"Walk", "Run", "Alert"}
                 /\ sophie.emotion = "Happy" => out \in {"Walk", "Idle", "Sit"}
                 /\ sophie.emotion = "Calm" => out \in {"Walk", "Idle", "Sit", "Alert"}

\* low energy wins over hunger, for an emotion that would have said Sleep
C4_Witness ==
    /\ op = "decide_behavior"
    /\ ~sophie.is_sleeping
    /\ sophie.physiological.sleepiness <= 700
    /\ sophie.physiological.energy < 200
    /\ sophie.physiological.hunger > 850
    /\ sophie.emotion = "Down"
    /\ out = "Sit"

\* C5: starting awake with sleepiness 79, one tick leaves is_sleeping false;
\* starting awake with sleepiness 81, one tick sets is_sleeping to true.
C5_FallAsleep ==
    [][(Did({"tick"}) /\ ~sophie.is_sleeping) =>
          /\ sophie.physiological.sleepiness = 790 => ~sophie'.is_sleeping
          /\ sophie.physiological.sleepiness = 810 => sophie'.is_sleeping]_vars

\* an agent woken at sleepiness 81 has ticked once and is asleep again
C5_Witness ==
    /\ op = "tick"
    /\ steps = 2
    /\ sophie.is_sleeping
    /\ sophie.physiological.sleepiness = 812

\* C6 as claimed: starting asleep with sleepiness 6, one tick does not wake
\* the agent; starting asleep with sleepiness 4, one tick wakes it.
C6_Original ==
    [][(Did({"tick"}) /\ sophie.is_sleeping) =>
          /\ sophie.physiological.sleepiness = 60 => sophie'.is_sleeping
          /\ sophie.physiological.sleepiness = 40 => ~sophie'.is_sleeping]_vars

\* C6 amended: the wake test reads the sleepiness this tick has already
\* lowered by 3, so a sleeping agent stays asleep over a tick exactly when it
\* started the tick with sleepiness >= 8; starting asleep with sleepiness 8
\* it does not wake, starting asleep with sleepiness 6 it wakes.
C6_WakeAfterUpdate ==
    [][(Did({"tick"}) /\ sophie.is_sleeping) =>
          /\ sophie'.is_sleeping <=> sophie.physiological.sleepiness >= 80
          /\ sophie.physiological.sleepiness = 80 => sophie'.is_sleeping
          /\ sophie.physiological.sleepiness = 60 => ~sophie'.is_sleeping]_vars

\* the first tick of an agent restored asleep at sleepiness 6 has woken it
C6_Witness ==
    /\ op = "tick"
    /\ steps = 1
    /\ ~sophie.is_sleeping
    /\ sophie.physiological.sleepiness = 30

\* C7: record_interaction() on a sleeping agent, c the counter after the
\* increment: c > 1 wakes it, c > 3 also sets Irritated, c = 1 leaves it
\* asleep with its emotion unchanged; from asleep with counter 0 the first
\* call leaves the agent asleep and the second wakes it.
C7_DisturbedSleep ==
    [][Did(RecordOps) =>
          LET c == sophie'.recent_interaction_count
          IN  /\ c = sophie.recent_interaction_count + 1
              /\ sophie.is_sleeping =>
                    /\ c > 1 => ~sophie'.is_sleeping
                    /\ c > 3 => sophie'.emotion = "Irritated"
                    /\ c = 1 => sophie'.is_sleeping /\ sophie'.emotion = sophie.emotion
              /\ burst'.from_asleep0 =>
                    /\ burst'.n = 1 => sophie'.is_sleeping
                    /\ burst'.n = 2 => ~sophie'.is_sleeping]_vars

\* a sleeper with three earlier interactions in the window was disturbed
C7_Witness ==
    /\ op \in RecordOps
    /\ burst.n = 1
    /\ ~burst.from_asleep0
    /\ sophie.recent_interaction_count = 4
    /\ sophie.emotion = "Irritated"
    /\ ~sophie.is_sleeping

\* C8 as claimed: from asleep with counter 0, the fourth of four successive
\* record_interaction() calls in one uncleared window forces Irritated.
C8_Original ==
    (burst.from_asleep0 /\ burst.n = 4) => sophie.emotion = "Irritated"

\* C8 amended: from asleep with counter 0, successive record_interaction()
\* calls never change the emotion (the second call wakes the agent, so the
\* fourth finds it awake); a call changes the emotion only when it finds the
\* agent asleep and raises the counter above 3, and then to Irritated.
C8_IrritatedOnlyAsleep ==
    [][Did(RecordOps) =>
          /\ burst'.from_asleep0 => sophie'.emotion = sophie.emotion
          /\ sophie'.emotion # sophie.emotion =>
                /\ sophie.is_sleeping
                /\ sophie'.recent_interaction_count > 3
                /\ sophie'.emotion = "Irritated"]_vars

\* four successive calls from asleep with counter 0: awake and still Bored
C8_Witness ==
    /\ burst.from_asleep0
    /\ burst.n = 4
    /\ sophie.recent_interaction_count = 4
    /\ ~sophie.is_sleeping
    /\ sophie.emotion = "Bored"

\* C9 as claimed: record_interaction(), feed(), on_positive_interaction(),
\* on_conversation() and on_neglect() each leave the Emotion unchanged.
C9_Original ==
    [][Did({"record_interaction", "feed", "on_positive_interaction",
            "on_conversation", "on_neglect"}) =>
          sophie'.emotion = sophie.emotion]_vars

\* C9 amended: outside tick() the Emotion changes only in
\* record_interaction() called on a sleeping agent whose incremented counter
\* exceeds 3, which sets Irritated; record_interaction() in every other case,
\* feed(), on_positive_interaction(), on_conversation() and on_neglect()
\* leave the Emotion unchanged.
C9_EmotionFrame ==
    [][/\ Did({"feed", "on_positive_interaction", "on_conversation",
               "on_neglect"}) => sophie'.emotion = sophie.emotion
       /\ Did(RecordOps) =>
             IF sophie.is_sleeping /\ sophie.recent_interaction_count + 1 > 3
             THEN sophie'.emotion = "Irritated"
             ELSE sophie'.emotion = sophie.emotion]_vars

\* the Irritated forced by a disturbance of sleep has survived a feed() or an on_neglect()
C9_Witness ==
    /\ op \in {"feed", "on_neglect"}
    /\ sophie.emotion = "Irritated"
    /\ sophie.recent_interaction_count = 4

\* C10: tick() applies on_neglect() exactly when minutes-since-last-
\* interaction is strictly greater than 180, lowering trust by 0.1 and
\* intimacy by 0.2 (clamped at 0); trust 50, intimacy 50 and 200 minutes
\* give trust 49.9 and intimacy 49.8 after one tick.
C10_NeglectDecay ==
    [][Did({"tick"}) =>
          LET m == minutes_since_interaction(sophie, now)
              r == sophie.relationship
              q == sophie'.relationship
          IN  /\ m > 180 => /\ q.trust = Max(r.trust - 1, 0)
                            /\ q.intimacy = Max(r.intimacy - 2, 0)
              /\ m <= 180 => q.trust = r.trust /\ q.intimacy = r.intimacy
              /\ (r.trust = 500 /\ r.intimacy = 500 /\ m = 200) =>
                    q.trust = 499 /\ q.intimacy = 498]_vars

\* the scenario of the claim: one tick at 200 minutes from trust 50, intimacy 50
C10_Witness ==
    /\ op = "tick"
    /\ steps = 1
    /\ minutes_since_interaction(sophie, now) = 200
    /\ sophie.relationship.trust = 499
    /\ sophie.relationship.intimacy = 498

\* C11: at each tick, if more than 600 seconds have elapsed since the
\* counter's last reset, the counter becomes 0 and the reset timestamp the
\* current time; at 600 seconds or fewer tick leaves both unchanged.
C11_LazyReset ==
    [][Did({"tick"}) =>
          IF now - sophie.interaction_count_reset_ts > 600
          THEN /\ sophie'.recent_interaction_count = 0
               /\ sophie'.interaction_count_reset_ts = now
          ELSE /\ sophie'.recent_interaction_count = sophie.recent_interaction_count
               /\ sophie'.interaction_count_reset_ts = sophie.interaction_count_reset_ts]_vars

\* the sleeper with 7 interactions in its window has ticked after the window
\* ran out: counter 0, reset stamped with the tick's time
C11_Witness ==
    /\ op = "tick"
    /\ sophie.physiological.sleepiness = 780
    /\ sophie.recent_interaction_count = 0
    /\ sophie.interaction_count_reset_ts = now

\* C20: within one tick is_sleeping changes at most once and only along two
\* edges: false to true only when the agent was awake and the just-updated
\* sleepiness is > 80, true to false only when it is asleep and the
\* just-updated sleepiness is < 5; an agent that falls asleep in a tick is
\* still asleep when the tick ends, and otherwise tick leaves is_sleeping
\* unchanged.
C20_SleepEdges ==
    [][Did({"tick"}) =>
          LET updated == sophie'.physiological.sleepiness
          IN  /\ updated = physiological_tick(sophie.physiological,
                                              sophie.is_sleeping).sleepiness
              /\ (~sophie.is_sleeping /\ updated > 800) => sophie'.is_sleeping
              /\ (~sophie.is_sleeping /\ updated <= 800) => ~sophie'.is_sleeping
              /\ (sophie.is_sleeping /\ updated < 50) => ~sophie'.is_sleeping
              /\ (sophie.is_sleeping /\ updated >= 50) => sophie'.is_sleeping]_vars

\* the agent awake at 80.0 has ticked to 80.2 and is asleep at the tick's end
C20_Witness ==
    /\ op = "tick"
    /\ steps = 1
    /\ sophie.is_sleeping
    /\ sophie.physiological.sleepiness = 802


----------------------------------------------------------------------------
\* the instructions of each thread that read or write the agent state
C12_SchedAccess == {"tick_begin", "tick_end", "save_begin", "broadcast", "copy", "rule_thought"}

C12_UiAccess == {"mutate", "snapshot"}

\* C12: every read and write of the agent state by the background loop and
\* by the command handlers happens while the thread holds the sophie mutex;
\* a finished tick() has turned the state the loop found under the mutex into
\* tick() of that state, and the snapshot a handler returns is the state the
\* handler found under the mutex after its own record_interaction() and
\* mutator, with nothing of the other thread in between.
C12_MutexDiscipline ==
    /\ Instr("sched") \in C12_SchedAccess => locks.sophie = "sched"
    /\ Instr("ui") \in C12_UiAccess => locks.sophie = "ui"
    /\ op = "sched.tick_end" => sophie = tick(sched.before, sched.t)
    /\ op = "ui.snapshot" =>
          /\ sophie = Mutated(arg.cmd, arg.before, arg.t)
          /\ \E draws \in SnapshotDraws :
                out = make_snapshot(Mutated(arg.cmd, arg.before, arg.t), now,
                                    chrono_hour(now), draws)

\* a click waits at the mutex while the loop is between the two halves of
\* tick(), and the tick ends as if alone
C12_Witness ==
    /\ op = "sched.tick_end"
    /\ arg.cmd = "click_sophie"
    /\ Instr("ui") = "lock"
    /\ sophie = tick(sched.before, sched.t)

\* C13: the loop serializes the state while it holds the sophie mutex and
\* runs save_state only after it has released it: the store write is never
\* in progress while the loop holds the sophie mutex.
C13_WriteOutsideGuard ==
    /\ Instr("sched") = "save_begin" => locks.sophie = "sched"
    /\ Instr("sched") = "save_end" => locks.sophie # "sched"

\* some text-generation request is outstanding
C14_Outstanding == \E i \in DOMAIN tasks : tasks[i].status = "pending"

\* C14: in speak_to_sophie and in the thinking path the prompt fields are
\* copied under the sophie mutex and the mutex is released before the request
\* is started; no thread keeps the mutex for the time of a request, so a
\* thread that holds it while a request is outstanding can always take its
\* next step, and tick() gets the mutex.
C14_GuardReleasedBeforeRequest ==
    /\ Instr("sched") = "copy" => locks.sophie = "sched"
    /\ (Instr("ui") = "snapshot" /\ arg.cmd = "speak_to_sophie") => locks.sophie = "ui"
    /\ Instr("sched") = "spawn" => locks.sophie # "sched"
    /\ Instr("ui") = "spawn" => locks.sophie # "ui"
    /\ op = "sched.spawn" => locks.sophie # "sched"
    /\ op = "ui.spawn" => locks.sophie # "ui"
    /\ (C14_Outstanding /\ locks.sophie = "ui") => ENABLED UiStep
    /\ (C14_Outstanding /\ locks.sophie = "sched") => ENABLED SchedStep
    /\ (C14_Outstanding /\ Instr("sched") = "lock" /\ locks.sophie = "free")
          => ENABLED SchedLock

\* the speech request is outstanding and the loop is inside tick()
C14_Witness ==
    /\ \E i \in DOMAIN tasks : tasks[i].kind = "speech" /\ tasks[i].status = "pending"
    /\ op = "sched.tick_begin"
    /\ locks.sophie = "sched"

\* a task's request has come back in this step
C15_Responded ==
    \E i \in DOMAIN tasks : tasks[i].status = "pending" /\ tasks'[i].status # "pending"

C15_Failed ==
    \E i \in DOMAIN tasks : tasks[i].status = "pending" /\ tasks'[i].status = "err"

\* C15: whatever a text-generation call comes to, the step that handles it
\* leaves the agent state, the clock and both threads as they were, so the
\* agent states of a run do not depend on it; on an error no event is
\* emitted, no memory written and no request sent again.
C15_OutcomeLeavesState ==
    [][C15_Responded =>
          /\ sophie' = sophie
          /\ UNCHANGED <<now, pc, locks, sched, arg, out, store>>
          /\ Len(tasks') = Len(tasks)
          /\ C15_Failed => (events' = events /\ memory' = memory)]_vars

\* a thinking request failed and a speech request failed: nothing emitted
\* but the loop's updates, no thought remembered
C15_Witness ==
    /\ op = "task.respond"
    /\ \E i \in DOMAIN tasks : tasks[i].kind = "thinking" /\ tasks[i].status = "err"
    /\ \E i \in DOMAIN tasks : tasks[i].kind = "speech" /\ tasks[i].status = "err"
    /\ events.thought = 0
    /\ events.speech_response = 0
    /\ \A i \in DOMAIN memory : memory[i].kind # "thought"

\* C16: between two consecutive tick() invocations at least 60 seconds pass
\* on the clock tick() reads.
C16_OncePerMinute ==
    [][sched'.last_tick # sched.last_tick =>
          sched'.last_tick - sched.last_tick >= 60]_vars

----------------------------------------------------------------------------
\* the state SophieState::new() builds, value by value
C17_FreshDefault ==
    /\ sophie.physiological = [energy |-> 800, hunger |-> 200, sleepiness |-> 100]
    /\ sophie.emotion = "Calm"
    /\ sophie.relationship = [trust |-> 100, intimacy |-> 50, understanding |-> 0]
    /\ ~sophie.is_sleeping
    /\ sophie.recent_interaction_count = 0
    /\ sophie.last_interaction_ts = now
    /\ sophie.interaction_count_reset_ts = now

\* C17: at start-up, if no snapshot is stored under the key, if reading it
\* fails, or if the stored text does not deserialize into an agent state, the
\* agent starts in the fresh default state and start-up continues; only a
\* failure to open the store stops the program.
C17_StartupFallback ==
    /\ pc.main = "panicked" <=> (op # "init" /\ store.opens # "ok")
    /\ (pc.main = "opened") => ENABLED RestoreState
    /\ (pc.main = "running" /\ store.row.kind \in {"absent", "unreadable", "garbage"})
          => C17_FreshDefault
    /\ (pc.main = "running" /\ store.row.kind = "json" /\ ~Deserializes(store.row))
          => C17_FreshDefault
    /\ (pc.main = "running") => ENABLED FirstTick

\* a stored text whose emotion is no variant of Emotion: start-up is past
\* the restore with the fresh state
C17_Witness ==
    /\ pc.main = "running"
    /\ store.row.kind = "json"
    /\ \E e \in store.row.doc : e.key = "emotion" /\ e.value = "Sleepy"
    /\ C17_FreshDefault

----------------------------------------------------------------------------
\* C18: tick(), record_interaction() and minutes_since_interaction() are
\* total: for every agent state and every reading of the clock each completes
\* normally and yields a state or value; none aborts, overflows or underflows.
C18_Total ==
    op \in {"tick", "record_interaction", "minutes_since_interaction"} =>
        out.status = "ok"

----------------------------------------------------------------------------
\* C19 as stated: two evaluations of decide_behavior on the same agent-state
\* snapshot and the same hour-of-day return the same Behavior.
C19_Original ==
    \A i, j \in DOMAIN out : out[i] = out[j]

\* a physiological override of decide_behavior applies to the snapshot
C19_Overridden ==
    \/ sophie.is_sleeping
    \/ sophie.physiological.sleepiness > 700
    \/ sophie.physiological.energy < 200
    \/ sophie.physiological.hunger > 850

\* C19 as the code has it: evaluations of decide_behavior on the same
\* snapshot and hour agree whenever a physiological override applies or the
\* emotion is Irritated, Down or Curious; for Bored, Happy, Playful and Calm
\* the result follows the draws of the evaluation.
C19_DeterministicArms ==
    (C19_Overridden \/ sophie.emotion \in {"Irritated", "Down", "Curious"}) =>
        \A i, j \in DOMAIN out : out[i] = out[j]

\* a Curious cat with no override, evaluated twice
C19_Witness ==
    /\ ~C19_Overridden
    /\ sophie.emotion = "Curious"
    /\ out = <<"Alert", "Alert">>

----------------------------------------------------------------------------
\* C21: within one tick() the emotion transition comes after the
\* physiological update and before the neglect decay: it reads the energy
\* this tick has just updated and the intimacy this tick has not yet reduced.
C21_EmotionOrder ==
    [][Did({"tick"}) =>
          LET m == minutes_since_interaction(sophie, now)
              updated == physiological_tick(sophie.physiological, sophie.is_sleeping)
          IN  /\ sophie'.physiological.energy = updated.energy
              /\ sophie'.emotion = transition(sophie.emotion, m < 2, m, updated.energy,
                                              sophie.relationship.intimacy)
              /\ sophie'.relationship = IF m > 180
                                        THEN on_neglect(sophie.relationship)
                                        ELSE sophie.relationship]_vars

\* Bored for 241 minutes at intimacy 40.2: Irritated, and intimacy 40.0 after
C21_Witness ==
    /\ op = "tick"
    /\ steps = 1
    /\ sophie.emotion = "Irritated"
    /\ sophie.relationship.intimacy = 400
    /\ sophie.relationship.understanding = 20

\* C22: the physiological update of a tick() follows the is_sleeping value
\* the tick started with: asleep, energy +2 (at most 100) and sleepiness -3
\* (at least 0); awake, energy -0.5 (at least 0) and sleepiness +0.2 (at most
\* 100); hunger +0.3 (at most 100) in both cases.
C22_PhysiologyFollowsStart ==
    [][Did({"tick"}) =>
          LET p == sophie.physiological
              q == sophie'.physiological
          IN  /\ q.hunger = Min(p.hunger + 3, 1000)
              /\ sophie.is_sleeping =>
                    /\ q.energy = Min(p.energy + 20, 1000)
                    /\ q.sleepiness = Max(p.sleepiness - 30, 0)
              /\ ~sophie.is_sleeping =>
                    /\ q.energy = Max(p.energy - 5, 0)
                    /\ q.sleepiness = Min(p.sleepiness + 2, 1000)]_vars

\* woken at sleepiness 81.0, the agent is awake when the tick starts: the
\* tick adds 0.2, takes no energy back, and only then puts it to sleep
C22_Witness ==
    /\ op = "tick"
    /\ steps = 2
    /\ sophie.is_sleeping
    /\ sophie.physiological.sleepiness = 812
    /\ sophie.physiological.energy = 0
    /\ sophie.recent_interaction_count = 8

\* C23: record_interaction() raises recent_interaction_count by exactly 1 and
\* leaves the counter's reset timestamp alone; k calls in a row raise the
\* counter by k, also when the 600-second window is over.
C23_CounterAccumulates ==
    [][Did(RecordOps) =>
          /\ sophie'.recent_interaction_count = sophie.recent_interaction_count + 1
          /\ sophie'.interaction_count_reset_ts = sophie.interaction_count_reset_ts
          /\ sophie'.recent_interaction_count = burst'.count0 + burst'.n]_vars

\* two calls in a row on a counter of 3 whose window ended long ago
C23_Witness ==
    /\ op \in RecordOps
    /\ burst.n = 2
    /\ burst.count0 = 3
    /\ now - sophie.interaction_count_reset_ts > 600
    /\ sophie.recent_interaction_count = 5

\* C27: from the fresh state, and from every snapshot the program has saved
\* on the way, no sequence of operations makes the emotion Curious or
\* Playful.
C27_FiveEmotions ==
    sophie.emotion \in {"Calm", "Happy", "Bored", "Irritated", "Down"}

\* a Bored agent is clicked and ticked: Happy
C27_Witness ==
    /\ op = "tick"
    /\ steps = 2
    /\ sophie.emotion = "Happy"
    /\ sophie.relationship.intimacy = 58
    /\ sophie.recent_interaction_count = 1

\* C28: an agent still asleep when record_interaction() returns has a counter
\* of exactly 1; a counter of 2 or more on a sleeping agent only arises when a
\* tick puts an awake agent to sleep and leaves its counter, and the forced
\* Irritated needs a counter of at least 3 on a sleeping agent.
C28_AsleepAfterCall ==
    [][/\ Did(RecordOps) =>
             /\ sophie'.is_sleeping => sophie'.recent_interaction_count = 1
             /\ (sophie.is_sleeping /\ sophie'.recent_interaction_count > 3)
                   => (sophie'.emotion = "Irritated" /\ sophie.recent_interaction_count >= 3)
             /\ ~(sophie.is_sleeping /\ sophie.recent_interaction_count >= 3)
                   => sophie'.emotion = sophie.emotion
       /\ (/\ ~(sophie.is_sleeping /\ sophie.recent_interaction_count >= 2)
           /\ sophie'.is_sleeping /\ sophie'.recent_interaction_count >= 2)
             => /\ Did({"tick"})
                /\ ~sophie.is_sleeping
                /\ sophie'.recent_interaction_count = sophie.recent_interaction_count]_vars

\* awake with a counter of 3, put to sleep by a tick, then clicked: Irritated
C28_Witness ==
    /\ op = "click_sophie"
    /\ steps = 2
    /\ sophie.emotion = "Irritated"
    /\ ~sophie.is_sleeping
    /\ sophie.recent_interaction_count = 4

----------------------------------------------------------------------------
\* C25: with no physiological override and emotion Calm: at an hour in 5..7
\* or 17..19 with energy > 60 a draw below 0.4 returns Walk; in every other
\* case (hour 8, hour 20, any other hour, energy <= 60, or that draw at 0.4
\* or above) the result follows the default draw with thresholds 0.35 Idle,
\* 0.55 Sit, 0.70 Walk, 0.85 Alert, else Idle; it is never Run or Sleep.
C25_CalmArm ==
    (op = "decide_behavior" /\ ~C19_Overridden /\ sophie.emotion = "Calm") =>
        LET active == /\ arg.hour \in {5, 6, 7, 17, 18, 19}
                      /\ sophie.physiological.energy > 600
            daily(r) == IF r < 3500 THEN "Idle"
                        ELSE IF r < 5500 THEN "Sit"
                        ELSE IF r < 7000 THEN "Walk"
                        ELSE IF r < 8500 THEN "Alert"
                        ELSE "Idle"
        IN  /\ out \notin {"Run", "Sleep"}
            /\ (active /\ arg.draws[1] < 4000) => out = "Walk"
            /\ (active /\ arg.draws[1] >= 4000) => out = daily(arg.draws[2])
            /\ ~active => out = daily(arg.draws[1])

\* hour 8 with energy 60.1: the draw 0.3999 is the default draw and gives Sit
C25_Witness ==
    /\ op = "decide_behavior"
    /\ ~C19_Overridden
    /\ sophie.emotion = "Calm"
    /\ arg.hour = 8
    /\ sophie.physiological.energy = 601
    /\ arg.draws[1] = 3999
    /\ out = "Sit"

----------------------------------------------------------------------------
\* C24 as stated: with no physiological override and emotion Happy, over a
\* uniform draw Walk has 30% when intimacy > 50 and 0% when intimacy <= 50,
\* Idle has 20% (of all draws, or of the draws that do not give Walk), and
\* Sit has the rest.
C24_Original ==
    (op = "chances" /\ ~C19_Overridden /\ sophie.emotion = "Happy") =>
        /\ out["Walk"] = IF sophie.relationship.intimacy > 500 THEN 3000 ELSE 0
        /\ \/ out["Idle"] * 100 = 20 * DrawRange
           \/ out["Idle"] * 100 = 20 * (DrawRange - out["Walk"])
        /\ out["Sit"] = DrawRange - out["Walk"] - out["Idle"]

\* C24 as the code has it: with no physiological override and emotion Happy,
\* over a uniform draw: intimacy > 50 gives Walk 30%, Idle 20%, Sit 50%;
\* intimacy <= 50 gives Walk never, Idle 50%, Sit 50%.
C24_HappyChances ==
    (op = "chances" /\ ~C19_Overridden /\ sophie.emotion = "Happy") =>
        /\ out["Walk"] = IF sophie.relationship.intimacy > 500 THEN 3000 ELSE 0
        /\ out["Idle"] = IF sophie.relationship.intimacy > 500 THEN 2000 ELSE 5000
        /\ out["Sit"] = 5000
        /\ \A b \in Behavior \ {"Walk", "Idle", "Sit"} : out[b] = 0

\* a Happy cat at intimacy 50.0: no draw walks, half of them idle
C24_Witness ==
    /\ op = "chances"
    /\ ~C19_Overridden
    /\ sophie.emotion = "Happy"
    /\ sophie.relationship.intimacy = 500
    /\ out["Walk"] = 0
    /\ out["Idle"] = 5000

----------------------------------------------------------------------------
\* C26: no deadlock between the two mutexes: a thread that holds the memory
\* mutex never waits for the sophie mutex (whoever holds both took sophie
\* first, and the response tasks take only memory), and under every
\* interleaving of the loop, the handlers and the response tasks every lock()
\* call eventually returns with the mutex.
C26_EveryLockGranted ==
    /\ [](\A th \in LockThreads : locks.memory = th => ~Waits(th, "sophie"))
    /\ [](\A i \in DOMAIN TaskNames : locks.sophie # TaskNames[i])
    /\ \A th \in {"sched", "ui"} : \A l \in Mutexes :
          Waits(th, l) ~> (locks[l] = th)
    /\ \A i \in DOMAIN TaskNames :
          Waits(TaskNames[i], "memory") ~> (locks.memory = TaskNames[i])

\* a handler holds the sophie mutex and waits for the memory mutex, which a
\* thinking task holds, while the loop waits for the sophie mutex
C26_Witness ==
    /\ locks.sophie = "ui"
    /\ Waits("ui", "memory")
    /\ locks.memory \in {TaskNames[i] : i \in DOMAIN TaskNames}
    /\ Waits("sched", "sophie")

----------------------------------------------------------------------------
\* C29: while tick() keeps being invoked and no interaction occurs, a
\* sleeping agent eventually wakes and an awake agent eventually falls
\* asleep: is_sleeping changes value again and again and never stays fixed.
C29_SleepAlternates ==
    /\ sophie.is_sleeping ~> ~sophie.is_sleeping
    /\ ~sophie.is_sleeping ~> sophie.is_sleeping

\* an agent that fell asleep at sleepiness 80.2 with no energy left has
\* slept 26 ticks: it wakes at sleepiness 2.2 with energy 52.0
C29_Witness ==
    /\ op = "tick"
    /\ ~sophie.is_sleeping
    /\ sophie.physiological.sleepiness = 22
    /\ sophie.physiological.energy = 520
    /\ sophie.recent_interaction_count = 0

============================================================================
